---- MODULE Spec2Model ----
(***************************************************************************)
(* Session orchestration of the AdelBot backend: SessionService            *)
(* (create / start / run_agent / finalize / cancel), the background        *)
(* pipeline _run_session_pipeline and the container calls it makes.        *)
(*                                                                         *)
(* Database model.  Every request and every pipeline run owns its own      *)
(* AsyncSession (expire_on_commit=False): an ORM object is a private copy  *)
(* of the row taken when it was loaded, a flush writes only the attributes *)
(* that were assigned, and other transactions see a write only after the   *)
(* commit (PostgreSQL READ COMMITTED).  An UPDATE takes the row lock until *)
(* the transaction ends, so a flush of a row another transaction has       *)
(* written and not yet committed waits.  Time is a discrete clock of       *)
(* TickSeconds-second ticks.                                               *)
(***************************************************************************)
EXTENDS Integers, Sequences, FiniteSets, TLC

\* ---------------------------------------------------------------- bounds
\* The websockets that may attach to the session's feed.
Observers == {"w1", "w2", "w3"}

SessionIds == {"s1", "s2"}
\* The session whose whole life (pipeline, cancel requests, database errors,
\* clock) Spec explores; SpecAdmission runs both sessions' pipelines.
Focus == {"s1"}
MaxTime == 2
MaxCancels == 1
MaxDbFaults == 1
MaxStreamEvents == 1
MaxActive == 3
MaxOutput == 3
MaxChunk == 2
MaxHours == 9
MaxLine == 3

\* ------------------------------------------------------ program constants
None == -1
TickSeconds == 30
CONTAINER_MAX_LIFETIME_HOURS == 8
FreeMinutesPerMonth == 60
FreeMaxConcurrent == 1
Unlimited == -1
ProMinutesPerMonth == 600
ProMaxConcurrent == 3

TIER_LIMITS ==
    [ free       |-> [minutes_per_month |-> FreeMinutesPerMonth,
                      max_concurrent_sessions |-> FreeMaxConcurrent],
      pro        |-> [minutes_per_month |-> ProMinutesPerMonth,
                      max_concurrent_sessions |-> ProMaxConcurrent],
      enterprise |-> [minutes_per_month |-> Unlimited,
                      max_concurrent_sessions |-> Unlimited] ]

\* The tier of the one modelled user's subscription.
UserTier == "free"

TerminalStatuses == {"completed", "failed", "cancelled", "timed_out"}
ActiveStatuses == {"running", "agent_working", "provisioning"}

Fields == {"status", "started_at", "ended_at", "duration_seconds",
           "container_id", "cost_cents", "commit_sha", "commit_message",
           "files_changed", "error_message"}

\* Attributes whose assigned value is a fresh clock reading: an assignment
\* always marks them modified.
ClockFields == {"started_at", "ended_at", "duration_seconds"}

\* A DevSession built as already started.
NewSessionStarted ==
    [ status |-> "provisioning", started_at |-> 0, ended_at |-> None,
      duration_seconds |-> None, container_id |-> "None", cost_cents |-> 0,
      commit_sha |-> "None", commit_message |-> "None",
      files_changed |-> None, error_message |-> "None" ]

\* DevSession(...) as create_session builds it (column defaults).
NewSession ==
    [ status |-> "pending", started_at |-> None, ended_at |-> None,
      duration_seconds |-> None, container_id |-> "None", cost_cents |-> 0,
      commit_sha |-> "None", commit_message |-> "None",
      files_changed |-> None, error_message |-> "None" ]

Procs == {"pipe", "cancel"} \X SessionIds
NoProc == << "none", "none" >>

VARIABLES
    now,            \* the clock, in ticks
    req,            \* [SessionIds -> state of the create_session request]
    overlap,        \* two create requests were in flight at once, none active
    db,             \* committed dev_sessions rows
    tx,             \* row as its lock holder sees it (= db when unlocked)
    rowLock,        \* [SessionIds -> "free" | "pipe" | "cancel"]
    dbEvents,       \* committed session_events: sequence numbers, insert order
    txEvents,       \* events the pipeline inserted and has not committed
    billing,        \* committed billing_records: [SessionIds -> Seq(amount)]
    txBilling,      \* [Procs -> Seq(amount)] inserted, not committed
    sub,            \* committed minutes_used_this_period, in seconds
    subTx,          \* the value its lock holder wrote
    subLock,        \* NoProc or the process holding the subscription row
    subRead,        \* [Procs -> value the Subscription object was loaded with]
    pc,             \* [Procs -> position]
    obj,            \* [Procs -> the process's DevSession object]
    event_counter,  \* run_agent's event_counter[0]
    exc,            \* [SessionIds -> text of the exception the pipeline caught]
    container,      \* [SessionIds -> "none" | "running" | "exited" | "destroyed"]
    cancels,        \* cancel requests issued per session
    faults,         \* database errors raised so far
    finalizeCalls,  \* [Procs -> times the process entered finalize_session]
    destroyCalls,   \* [Procs -> times the process invoked destroy_container]
    git_result,     \* [SessionIds -> how git_commit_and_push ended]
    sub0,           \* the usage counter before any session ran
    wsPc,           \* [SessionIds -> position of the session's feed observer]
    last_sequence,  \* [SessionIds -> session_websocket's last_sequence]
    wsSent,         \* [SessionIds -> sequence numbers sent to the observer]
    subRow,         \* the Subscription row an admission check finds, if any
    nActive,        \* the number of the user's active sessions it finds
    checkResult,    \* what _check_tier_limits returned
    checked,        \* the admission check has run
    ExitCode,       \* the exit code of the command run by exec_streaming
    output,         \* what the command will still write (tokens)
    received,       \* what the exec stream delivered so far
    buffer,         \* _run_streaming's buffer
    queue,          \* exec_streaming's asyncio.Queue
    execPc,         \* position of the _run_streaming thread
    execFault,      \* where the exec failed: none | create | stream | inspect
    genPc,          \* "waiting" | "ended": the generator's consumer loop
    yielded,        \* the items exec_streaming yielded, in order
    exit_code,      \* _stream_command's exit_code
    parsed,         \* lines _stream_command gave to _parse_stream_line
    forwarded,      \* event types _stream_command passed to on_event
    returned,       \* _stream_command has returned
    streamResult,   \* what it returned: [success, exit_code]
    active_connections, \* ConnectionManager's list for one session id
    hasKey,         \* the session id is a key of active_connections
    conn,           \* [Observers -> "new" | "attached" | "gone" | "raised"]
    bPc,            \* position of one broadcast call
    bIdx,           \* how many list items its for loop has passed
    sameList,       \* the list it iterates is still the one in the dict
    dead,           \* broadcast's dead list
    delivered,      \* observers whose send_json returned
    throughout,     \* observers attached since the broadcast began
    hours_alive,    \* [SessionIds -> whole hours since the container was created]
    inputLine,      \* a line given to the decoder
    decoded,        \* what the decoder made of it: [raised, events]
    decodeDone,     \* the decoder has run
    dockerd,        \* [ContainerIds -> the container with that id: label, state]
    ownPc,          \* [Owners -> position of the session's pipeline]
    ownObj,         \* [Owners -> container_id on the pipeline's session object]
    ownRow,         \* [Owners -> container_id of the committed session row]
    ownCancel,      \* [Owners -> "idle" | "loaded" | "done": its cancel request]
    ownSeen,        \* [Owners -> container_id the cancel request loaded]
    calls,          \* calls issued: << session, operation, container id, state found >>
    daemon,         \* [ContainerIds -> a container on the host: label, state, hours_alive]
    atCall,         \* the containers when cleanup_expired_containers was called
    toVisit,        \* the rest of the list its for loop goes through
    cleanPc,        \* "idle" | "loop" | "returned"
    errors,         \* ids of the containers whose handling raised
    cleaned,        \* its counter, the value it returns
    execution_mode, \* run_task's execution_mode: "claude" | "cdm"
    taskPc,         \* position of the run_task call
    taskContainer,  \* "running" | "destroyed": the container it runs in
    cmd,            \* the command given to _stream_command: "claude" | "cdm" | "None"
    ran,            \* the commands run, in order: << how, command, exit code is 0 >>
    taskResult      \* what run_task returned

\* The live feed of a session (websocket.py).
feedVars == << wsPc, last_sequence, wsSent >>

\* One call of the admission check on its own (_check_tier_limits).
tierVars == << subRow, nActive, checkResult, checked >>

\* One streamed command: exec_streaming and its consumer _stream_command.
execVars == << ExitCode, output, received, buffer, queue, execPc, execFault >>
runnerVars == << genPc, yielded, exit_code, parsed, forwarded, returned, streamResult >>
streamVars == << execVars, runnerVars >>

\* Variables of the components around the session service.
\* The ConnectionManager and one broadcast (websocket.py 17-42).
hubVars == << active_connections, hasKey, conn, bPc, bIdx, sameList, dead,
              delivered, throughout >>

\* The age of the containers, for the expiry sweep.
sweepVars == << hours_alive >>

\* One line through the decoder of _stream_command on its own.
decodeVars == << inputLine, decoded, decodeDone >>

\* The Docker daemon's containers and the sessions that own them.
fleetVars == << dockerd, ownPc, ownObj, ownRow, ownCancel, ownSeen, calls >>

\* One call of cleanup_expired_containers and the containers on the host.
cleanupVars == << daemon, atCall, toVisit, cleanPc, errors, cleaned >>

\* One call of AgentService.run_task in a container.
taskVars == << execution_mode, taskPc, taskContainer, cmd, ran, taskResult >>

otherVars == << feedVars, tierVars, streamVars, hubVars, sweepVars, decodeVars,
             fleetVars,
             cleanupVars,
             taskVars >>

vars == << now, req, overlap, db, tx, rowLock, dbEvents, txEvents, billing,
           txBilling, sub, subTx, subLock, subRead, pc, obj, event_counter,
           exc, container, cancels, faults, finalizeCalls, destroyCalls,
           git_result, sub0, otherVars >>

dbVars == << db, tx, rowLock, dbEvents, txEvents, billing, txBilling,
             sub, subTx, subLock >>

\* Everything the session service and its pipeline own.
sessionVars == << now, req, overlap, dbVars, subRead, pc, obj, event_counter,
                  exc, container, cancels, faults, finalizeCalls,
                  destroyCalls, git_result, sub0 >>

notFeed == << sessionVars, tierVars, streamVars, hubVars, sweepVars,
             decodeVars,
             fleetVars,
             cleanupVars,
             taskVars >>
notTier == << sessionVars, feedVars, streamVars, hubVars, sweepVars,
             decodeVars,
             fleetVars,
             cleanupVars,
             taskVars >>
notStream == << sessionVars, feedVars, tierVars, hubVars, sweepVars,
             decodeVars,
             fleetVars,
             cleanupVars,
             taskVars >>
notHub == << sessionVars, feedVars, tierVars, streamVars, sweepVars,
             decodeVars,
             fleetVars,
             cleanupVars,
             taskVars >>
notDecode == << sessionVars, feedVars, tierVars, streamVars, hubVars,
               sweepVars,
             fleetVars,
             cleanupVars,
             taskVars >>
notSweep == << feedVars, tierVars, streamVars, hubVars,
             decodeVars,
             fleetVars,
             cleanupVars,
             taskVars >>

notFleet == << sessionVars, feedVars, tierVars, streamVars, hubVars, sweepVars, decodeVars,
             cleanupVars,
             taskVars >>

notCleanup == << sessionVars, feedVars, tierVars, streamVars, hubVars, sweepVars, decodeVars, fleetVars,
             taskVars >>

notTask == << sessionVars, feedVars, tierVars, streamVars, hubVars, sweepVars, decodeVars, fleetVars, cleanupVars >>

\* ---------------------------------------------------------------- helpers
Pipe(s) == << "pipe", s >>
Cancel(s) == << "cancel", s >>

\* Python attribute assignment on an ORM object.
Assign(o, upd) ==
    [ f \in Fields |-> IF f \in DOMAIN upd THEN upd[f] ELSE o[f] ]

\* The attributes an assignment marks modified (SQLAlchemy keeps no change
\* when the new value equals the loaded one).
Dirty(o, upd) ==
    { f \in DOMAIN upd : f \in ClockFields \/ upd[f] # o[f] }

\* A flush that writes the status column and no other.
FlushedStatusOnly(row, o, upd) ==
    [ f \in Fields |->
        IF f = "status" /\ f \in Dirty(o, upd) THEN upd[f] ELSE row[f] ]

\* The row after a flush of those attributes.
Flushed(row, o, upd) ==
    [ f \in Fields |-> IF f \in Dirty(o, upd) THEN upd[f] ELSE row[f] ]

\* A flush that writes the row needs the row lock.
CanFlush(p, upd) ==
    Dirty(obj[p], upd) = {} \/ rowLock[p[2]] \in {"free", p[1]}

LockAfter(p, upd) ==
    IF Dirty(obj[p], upd) = {} THEN rowLock[p[2]] ELSE p[1]

\* cost_cents = int(duration_minutes * RATE_PER_MINUTE * 100), with
\* RATE_PER_MINUTE = 0.01: int() truncates.
CostCents(duration_seconds) == duration_seconds \div 60

QuotaReason(tier) ==
    CASE tier = "free" ->
           "Monthly limit of 60 minutes reached. Please upgrade your plan."
      [] tier = "pro" ->
           "Monthly limit of 600 minutes reached. Please upgrade your plan."
      [] OTHER -> "Monthly limit reached."

ConcurrencyReason(tier) ==
    CASE tier = "free" -> "Max concurrent sessions (1) reached."
      [] tier = "pro" -> "Max concurrent sessions (3) reached."
      [] OTHER -> "Max concurrent sessions reached."

\* _check_tier_limits with ">" where the code has ">=".
CheckTierLimitsStrict(tier, minutes_used, active) ==
    LET limits == TIER_LIMITS[tier] IN
    IF limits.minutes_per_month > 0
       /\ minutes_used > limits.minutes_per_month * 60
    THEN [allowed |-> FALSE, reason |-> QuotaReason(tier)]
    ELSE IF limits.max_concurrent_sessions > 0
            /\ active > limits.max_concurrent_sessions
    THEN [allowed |-> FALSE, reason |-> ConcurrencyReason(tier)]
    ELSE [allowed |-> TRUE, reason |-> "None"]

\* _check_tier_limits: minutes_used in seconds, active = number of the
\* user's sessions whose committed status is active.
CheckTierLimits(tier, minutes_used, active) ==
    LET limits == TIER_LIMITS[tier] IN
    IF limits.minutes_per_month > 0
       /\ minutes_used >= limits.minutes_per_month * 60
    THEN [allowed |-> FALSE, reason |-> QuotaReason(tier)]
    ELSE IF limits.max_concurrent_sessions > 0
            /\ active >= limits.max_concurrent_sessions
    THEN [allowed |-> FALSE, reason |-> ConcurrencyReason(tier)]
    ELSE [allowed |-> TRUE, reason |-> "None"]

\* _check_tier_limits 325-333 for a user whose Subscription row may be
\* missing: the free tier and a usage of 0 are taken then.
CheckUser(subscription, active) ==
    CheckTierLimits(IF subscription.present THEN subscription.tier ELSE "free",
                    IF subscription.present THEN subscription.minutes_used ELSE 0,
                    active)

Exists(s) == req[s] = "created"

ActiveSessions == { s \in SessionIds : Exists(s) /\ db[s].status \in ActiveStatuses }

InFlight(s) == req[s] \in {"received", "admitted"}

\* ------------------------------------------------------------------- Init
InitMinutesUsed == {0, FreeMinutesPerMonth * 60 - TickSeconds,
                    FreeMinutesPerMonth * 60}

\* No observer is attached to any session's feed.
FeedIdle ==
    /\ wsPc = [s \in SessionIds |-> "none"]
    /\ last_sequence = [s \in SessionIds |-> 0]
    /\ wsSent = [s \in SessionIds |-> << >>]

NoSubscription == [present |-> FALSE, tier |-> "free", minutes_used |-> 0]

\* No admission check is run on its own.
TierIdle ==
    /\ subRow = NoSubscription
    /\ nActive = 0
    /\ checkResult = [allowed |-> FALSE, reason |-> "None"]
    /\ checked = FALSE

\* _stream_command's locals before its loop (agent_service.py 152-156).
RunnerInit ==
    /\ genPc = "waiting"
    /\ yielded = << >>
    /\ exit_code = 0
    /\ parsed = 0
    /\ forwarded = << >>
    /\ returned = FALSE
    /\ streamResult = [success |-> FALSE, exit_code |-> 0]

\* No command is streamed.
StreamIdle ==
    /\ ExitCode = 0
    /\ output = << >>
    /\ received = << >>
    /\ buffer = << >>
    /\ queue = << >>
    /\ execPc = "none"
    /\ execFault = "none"
    /\ RunnerInit

SessionInit ==
    /\ now = 0
    /\ req = [s \in SessionIds |-> "none"]
    /\ overlap = FALSE
    /\ db = [s \in SessionIds |-> NewSession]
    /\ tx = [s \in SessionIds |-> NewSession]
    /\ rowLock = [s \in SessionIds |-> "free"]
    /\ dbEvents = [s \in SessionIds |-> << >>]
    /\ txEvents = [s \in SessionIds |-> << >>]
    /\ billing = [s \in SessionIds |-> << >>]
    /\ txBilling = [p \in Procs |-> << >>]
    /\ sub \in InitMinutesUsed
    /\ subTx = sub
    /\ subLock = NoProc
    /\ subRead = [p \in Procs |-> 0]
    /\ pc = [p \in Procs |-> IF p[1] = "pipe" THEN "none" ELSE "idle"]
    /\ obj = [p \in Procs |-> NewSession]
    /\ event_counter = [s \in SessionIds |-> 0]
    /\ exc = [s \in SessionIds |-> "None"]
    /\ container = [s \in SessionIds |-> "none"]
    /\ cancels = [s \in SessionIds |-> 0]
    /\ faults = 0
    /\ finalizeCalls = [p \in Procs |-> 0]
    /\ destroyCalls = [p \in Procs |-> 0]
    /\ git_result = [s \in SessionIds |-> "none"]
    /\ sub0 = sub

\* ConnectionManager.__init__ (websocket.py 18-19); no broadcast yet.
HubInit ==
    /\ active_connections = << >>
    /\ hasKey = FALSE
    /\ conn = [w \in Observers |-> "new"]
    /\ bPc = "idle"
    /\ bIdx = 0
    /\ sameList = FALSE
    /\ dead = << >>
    /\ delivered = {}
    /\ throughout = {}

\* No container exists yet.
SweepInit == hours_alive = [s \in SessionIds |-> 0]

\* The sessions whose containers are followed, and the ids the daemon gives
\* to the containers it creates, in the order it gives them.
Owners == {"s1", "s2"}
ContainerSeq == << "c1", "c2" >>
ContainerIds == {ContainerSeq[i] : i \in 1..Len(ContainerSeq)}

\* No container exists, no session has started.
FleetInit ==
    /\ dockerd = [id \in ContainerIds |-> [label |-> "None", state |-> "none"]]
    /\ ownPc = [s \in Owners |-> "pending"]
    /\ ownObj = [s \in Owners |-> "None"]
    /\ ownRow = [s \in Owners |-> "None"]
    /\ ownCancel = [s \in Owners |-> "idle"]
    /\ ownSeen = [s \in Owners |-> "None"]
    /\ calls = {}

\* A container id with no container.
NoContainer == [label |-> "None", state |-> "none", hours |-> 0]

\* The host has no container, cleanup_expired_containers is not running.
CleanupIdle ==
    /\ daemon = [id \in ContainerIds |-> NoContainer]
    /\ atCall = [id \in ContainerIds |-> NoContainer]
    /\ toVisit = << >>
    /\ cleanPc = "idle"
    /\ errors = {}
    /\ cleaned = 0

\* run_task has returned nothing yet.
NoResult == [success |-> FALSE, exit_code |-> 0]

\* run_task is not called.
TaskIdle ==
    /\ execution_mode = "claude"
    /\ taskPc = "idle"
    /\ taskContainer = "running"
    /\ cmd = "None"
    /\ ran = << >>
    /\ taskResult = NoResult

\* No line is being decoded.
DecodeIdle ==
    /\ inputLine = << >>
    /\ decoded = [raised |-> FALSE, events |-> << >>]
    /\ decodeDone = FALSE

Init ==
    /\ SessionInit /\ FeedIdle /\ TierIdle /\ StreamIdle /\ HubInit
    /\ SweepInit /\ TaskIdle /\ CleanupIdle /\ FleetInit /\ DecodeIdle

\* ------------------------------------------------------------------ clock
Tick ==
    /\ now < MaxTime
    /\ now' = now + 1
    /\ UNCHANGED << req, overlap, db, tx, rowLock, dbEvents, txEvents, billing,
                    txBilling, sub, subTx, subLock, subRead, pc, obj,
                    event_counter, exc, container, cancels, faults,
                    finalizeCalls, destroyCalls, git_result, sub0, otherVars >>

\* --------------------------------------------------------- create_session
\* Lines 30-44: repository ownership and execution mode are validated.
CreateValidate(s) ==
    /\ req[s] = "none"
    /\ \E valid \in {"ok", "no_repo", "no_api_key", "bad_mode"} :
         req' = [req EXCEPT ![s] =
                   CASE valid = "ok" -> "received"
                     [] valid = "no_repo" -> "Repository not found"
                     [] valid = "no_api_key" ->
                          "ANTHROPIC_API_KEY not configured on server."
                     [] OTHER -> "execution_mode must be 'claude' or 'cdm'"]
    /\ overlap' = (overlap \/ (/\ req'[s] = "received"
                                /\ \E t \in SessionIds \ {s} : InFlight(t)
                                /\ ActiveSessions = {}
                                /\ CheckTierLimits(UserTier, sub, 0).allowed))
    /\ UNCHANGED << now, dbVars, subRead, pc, obj, event_counter, exc,
                    container, cancels, faults, finalizeCalls, destroyCalls, git_result, sub0, otherVars >>

\* The admission check of a route that schedules the background pipeline
\* before it knows the outcome.
CreateCheckScheduling(s) ==
    /\ req[s] = "received"
    /\ LET tier_check == CheckTierLimits(UserTier, sub, Cardinality(ActiveSessions))
       IN req' = [req EXCEPT ![s] =
                    IF tier_check.allowed THEN "admitted" ELSE tier_check.reason]
    /\ pc' = [pc EXCEPT ![Pipe(s)] = "load"]
    /\ UNCHANGED << now, overlap, dbVars, subRead, obj, event_counter,
                    exc, container, cancels, faults, finalizeCalls,
                    destroyCalls, git_result, sub0, otherVars >>

\* Lines 46-48: the admission check reads the committed subscription and the
\* committed statuses of the user's sessions.
CreateCheck(s) ==
    /\ req[s] = "received"
    /\ LET tier_check == CheckTierLimits(UserTier, sub, Cardinality(ActiveSessions))
       IN req' = [req EXCEPT ![s] =
                    IF tier_check.allowed THEN "admitted" ELSE tier_check.reason]
    /\ UNCHANGED << now, overlap, dbVars, subRead, pc, obj, event_counter,
                    exc, container, cancels, faults, finalizeCalls,
                    destroyCalls, git_result, sub0, otherVars >>

\* Lines 50-63, the request's commit (get_db) and add_task: the pending row and
\* its creation event become visible and the pipeline is scheduled.
CreateInsert(s) ==
    /\ req[s] = "admitted"
    /\ req' = [req EXCEPT ![s] = "created"]
    /\ db' = [db EXCEPT ![s] = NewSession]
    /\ tx' = [tx EXCEPT ![s] = NewSession]
    /\ dbEvents' = [dbEvents EXCEPT ![s] = << 0 >>]
    /\ pc' = [pc EXCEPT ![Pipe(s)] = "load"]
    /\ UNCHANGED << now, overlap, rowLock, txEvents, billing, txBilling, sub,
                    subTx, subLock, subRead, obj, event_counter, exc, container,
                    cancels, faults, finalizeCalls, destroyCalls, git_result, sub0, otherVars >>

\* ------------------------------------------------ transactions and flushes
NoUpdate == [f \in {} |-> 0]

\* await db.flush() after the assignments upd on the process's object.
FlushRow(p, upd) ==
    /\ CanFlush(p, upd)
    /\ obj' = [obj EXCEPT ![p] = Assign(@, upd)]
    /\ tx' = [tx EXCEPT ![p[2]] = Flushed(@, obj[p], upd)]
    /\ rowLock' = [rowLock EXCEPT ![p[2]] = LockAfter(p, upd)]

\* await db.commit(), preceded by the flush of the assignments upd: the
\* transaction's writes become the committed state and its locks are released.
CommitTx(p, upd) ==
    LET s == p[2]
        row == Flushed(tx[s], obj[p], upd)
        mine == LockAfter(p, upd) = p[1]
    IN /\ CanFlush(p, upd)
       /\ obj' = [obj EXCEPT ![p] = Assign(@, upd)]
       /\ db' = [db EXCEPT ![s] = IF mine THEN row ELSE @]
       /\ tx' = [tx EXCEPT ![s] = IF mine THEN row ELSE @]
       /\ rowLock' = [rowLock EXCEPT ![s] = IF mine THEN "free" ELSE @]
       /\ dbEvents' = [dbEvents EXCEPT ![s] =
                         IF p[1] = "pipe" THEN @ \o txEvents[s] ELSE @]
       /\ txEvents' = [txEvents EXCEPT ![s] = IF p[1] = "pipe" THEN << >> ELSE @]
       /\ billing' = [billing EXCEPT ![s] = @ \o txBilling[p]]
       /\ txBilling' = [txBilling EXCEPT ![p] = << >>]
       /\ sub' = IF subLock = p THEN subTx ELSE sub
       /\ subTx' = subTx
       /\ subLock' = IF subLock = p THEN NoProc ELSE subLock

\* The transaction is rolled back: a failed flush or commit, or the AsyncSession
\* closed with work not committed.
RollbackTx(p) ==
    LET s == p[2] IN
    /\ tx' = [tx EXCEPT ![s] = IF rowLock[s] = p[1] THEN db[s] ELSE @]
    /\ rowLock' = [rowLock EXCEPT ![s] = IF @ = p[1] THEN "free" ELSE @]
    /\ txEvents' = [txEvents EXCEPT ![s] = IF p[1] = "pipe" THEN << >> ELSE @]
    /\ txBilling' = [txBilling EXCEPT ![p] = << >>]
    /\ subTx' = IF subLock = p THEN sub ELSE subTx
    /\ subLock' = IF subLock = p THEN NoProc ELSE subLock
    /\ UNCHANGED << db, dbEvents, billing, sub >>

\* _add_event inside the pipeline's transaction.
AddEvents(s, seqs) == txEvents' = [txEvents EXCEPT ![s] = @ \o seqs]

\* An end that records no duration.
EndedNowOnly(o) == [ended_at |-> now]

\* session.ended_at = now; duration_seconds only if started_at is set.
EndedNow(o) ==
    IF o.started_at # None
    THEN [ended_at |-> now,
          duration_seconds |-> (now - o.started_at) * TickSeconds]
    ELSE [ended_at |-> now]

\* Record union: the assignments of a followed by those of b.
With(a, b) ==
    [ f \in DOMAIN a \cup DOMAIN b |-> IF f \in DOMAIN b THEN b[f] ELSE a[f] ]

ContainerId(s) == s

\* get_session_events: the committed events of the session ordered by sequence.
GetSessionEvents(s) == SortSeq(dbEvents[s], LAMBDA a, b : a < b)

\* ------------------------------------------------- _run_session_pipeline
\* sessions.py 27-31: the pipeline's AsyncSession loads the session row.
PipeLoad(s) ==
    /\ pc[Pipe(s)] = "load"
    /\ obj' = [obj EXCEPT ![Pipe(s)] = db[s]]
    /\ pc' = [pc EXCEPT ![Pipe(s)] = "start"]
    /\ UNCHANGED << now, req, overlap, dbVars, subRead, event_counter, exc,
                    container, cancels, faults, finalizeCalls, destroyCalls, git_result, sub0, otherVars >>

\* start_session 75-87.
StartSession(s) ==
    /\ pc[Pipe(s)] = "start"
    /\ FlushRow(Pipe(s), [status |-> "provisioning", started_at |-> now])
    /\ AddEvents(s, << 1 >>)
    /\ pc' = [pc EXCEPT ![Pipe(s)] = "provision"]
    /\ UNCHANGED << now, req, overlap, db, dbEvents, billing, txBilling, sub,
                    subTx, subLock, subRead, event_counter, exc, container,
                    cancels, faults, finalizeCalls, destroyCalls, git_result, sub0, otherVars >>

\* start_session 89-117 with create_dev_container: containers.run raises
\* (nothing was started), or the container starts and the clone exits
\* non-zero (RuntimeError, the container keeps running), or both succeed.
CreateDevContainer(s) ==
    /\ pc[Pipe(s)] = "provision"
    /\ \E outcome \in {"ok", "run_failed", "clone_failed"} :
         LET e == IF outcome = "run_failed" THEN "docker run failed"
                  ELSE "Failed to clone repository"
         IN /\ container' = [container EXCEPT ![s] =
                               IF outcome = "run_failed" THEN @ ELSE "running"]
            /\ IF outcome = "ok"
               THEN /\ FlushRow(Pipe(s), [container_id |-> ContainerId(s),
                                          status |-> "running"])
                    /\ AddEvents(s, << 2 >>)
                    /\ pc' = [pc EXCEPT ![Pipe(s)] = "commit1"]
                    /\ exc' = exc
               ELSE /\ FlushRow(Pipe(s), [status |-> "failed",
                                          error_message |-> e])
                    /\ txEvents' = txEvents
                    /\ pc' = [pc EXCEPT ![Pipe(s)] = "handler"]
                    /\ exc' = [exc EXCEPT ![s] = e]
    /\ UNCHANGED << now, req, overlap, db, dbEvents, billing, txBilling, sub,
                    subTx, subLock, subRead, event_counter, cancels, faults,
                    finalizeCalls, destroyCalls, git_result, sub0, otherVars >>

\* sessions.py 34.
Commit1(s) ==
    /\ pc[Pipe(s)] = "commit1"
    /\ CommitTx(Pipe(s), NoUpdate)
    /\ pc' = [pc EXCEPT ![Pipe(s)] = "agent_start"]
    /\ UNCHANGED << now, req, overlap, subRead, event_counter, exc, container,
                    cancels, faults, finalizeCalls, destroyCalls, git_result, sub0, otherVars >>

\* run_agent 125-136.
RunAgentStart(s) ==
    /\ pc[Pipe(s)] = "agent_start"
    /\ IF obj[Pipe(s)].container_id = "None"
       THEN /\ exc' = [exc EXCEPT ![s] = "Session has no container"]
            /\ pc' = [pc EXCEPT ![Pipe(s)] = "handler"]
            /\ UNCHANGED << obj, tx, rowLock, txEvents, event_counter >>
       ELSE /\ FlushRow(Pipe(s), [status |-> "agent_working"])
            /\ AddEvents(s, << 5 >>)
            /\ event_counter' = [event_counter EXCEPT ![s] = 10]
            /\ pc' = [pc EXCEPT ![Pipe(s)] = "agent_run"]
            /\ exc' = exc
    /\ UNCHANGED << now, req, overlap, db, dbEvents, billing, txBilling, sub,
                    subTx, subLock, subRead, container, cancels, faults,
                    finalizeCalls, destroyCalls, git_result, sub0, otherVars >>

\* track_event without its "event_counter[0] += 1".
TrackEventsNoIncrement(c, k) == [i \in 1..k |-> c]

\* The sequence numbers track_event gives k events from counter c on.
TrackEvents(c, k) == [i \in 1..k |-> c + i - 1]

\* run_agent 155-175 and 206-219 around agent_service.run_task (quick mode):
\* two launch events, n events decoded from the stream, one closing event
\* (the completion message, or the execution error); result is what run_task
\* returns.  Without a running container the exec itself fails.
RunTask(s) ==
    /\ pc[Pipe(s)] = "agent_run"
    /\ \E n \in 0..MaxStreamEvents, result \in {"success", "failed", "exec_error"} :
         LET p == Pipe(s)
             c == event_counter[s] + n + 3
             tracked == TrackEvents(event_counter[s], n + 3)
             summary == IF result = "failed" THEN "Task failed"
                        ELSE "Execution error"
         IN /\ container[s] = "running" \/ result = "exec_error"
            /\ IF result = "success"
               THEN /\ FlushRow(p, [status |-> "pushing"])
                    /\ AddEvents(s, tracked \o << c >>)
                    /\ event_counter' = [event_counter EXCEPT ![s] = c + 1]
                    /\ pc' = [pc EXCEPT ![p] = "push"]
               ELSE /\ FlushRow(p, With([status |-> "failed",
                                         error_message |-> summary],
                                        EndedNow(obj[p])))
                    /\ AddEvents(s, tracked)
                    /\ event_counter' = [event_counter EXCEPT ![s] = c]
                    /\ pc' = [pc EXCEPT ![p] = "commit2"]
    /\ UNCHANGED << now, req, overlap, db, dbEvents, billing, txBilling, sub,
                    subTx, subLock, subRead, exc, container, cancels, faults,
                    finalizeCalls, destroyCalls, git_result, sub0, otherVars >>

\* container_service.git_commit_and_push 209-242 as a function of what the
\* four git commands do.  A commit that exits non-zero with "nothing to
\* commit" in its output does not raise: the push and rev-parse still run and
\* the SHA returned is that of the existing HEAD.
GitCommitAndPush(up, add_ok, commit, push_ok) ==
    IF ~up THEN [raised |-> TRUE, error |-> "No such container"]
    ELSE IF ~add_ok THEN [raised |-> TRUE, error |-> "Git add failed"]
    ELSE IF commit = "error" THEN [raised |-> TRUE, error |-> "Git commit failed"]
    ELSE IF ~push_ok THEN [raised |-> TRUE, error |-> "Git push failed"]
    ELSE [raised |-> FALSE,
          commit_sha |-> IF commit = "committed" THEN "new_sha" ELSE "head_sha",
          files_changed |-> IF commit = "committed" THEN 1 ELSE 0]

\* Every failure detail read as "nothing to commit".
NothingToCommitInAny(error) == TRUE

\* "nothing to commit" in str(push_err).lower()
NothingToCommitIn(error) == error = "nothing to commit"

\* run_agent 177-219.
PushChanges(s) ==
    /\ pc[Pipe(s)] = "push"
    /\ \E add_ok \in BOOLEAN, commit \in {"committed", "nothing", "error"},
          push_ok \in BOOLEAN :
         LET p == Pipe(s)
             r == GitCommitAndPush(container[s] = "running", add_ok, commit, push_ok)
             upd == IF ~r.raised
                    THEN [commit_sha |-> r.commit_sha,
                          commit_message |-> "[AdelBot/Claude Code] task",
                          files_changed |-> r.files_changed,
                          status |-> "completed"]
                    ELSE IF NothingToCommitIn(r.error)
                    THEN [status |-> "completed"]
                    ELSE [status |-> "failed", error_message |-> r.error]
         IN /\ FlushRow(p, With(upd, EndedNow(obj[p])))
            /\ IF r.raised /\ ~NothingToCommitIn(r.error)
               THEN txEvents' = txEvents
               ELSE AddEvents(s, << event_counter[s] >>)
            /\ git_result' = [git_result EXCEPT ![s] =
                                IF r.raised THEN r.error
                                ELSE IF commit = "committed" THEN "committed"
                                ELSE "nothing to commit"]
    /\ pc' = [pc EXCEPT ![Pipe(s)] = "commit2"]
    /\ UNCHANGED << now, req, overlap, db, dbEvents, billing, txBilling, sub,
                    subTx, subLock, subRead, event_counter, exc, container,
                    cancels, faults, finalizeCalls, destroyCalls, sub0, otherVars >>

\* sessions.py 37.
Commit2(s) ==
    /\ pc[Pipe(s)] = "commit2"
    /\ CommitTx(Pipe(s), NoUpdate)
    /\ pc' = [pc EXCEPT ![Pipe(s)] = "finalize"]
    /\ UNCHANGED << now, req, overlap, subRead, event_counter, exc, container,
                    cancels, faults, finalizeCalls, destroyCalls, git_result, sub0, otherVars >>

\* ------------------------------------------------------- finalize_session
\* A destroy with no outcome for a container that is not there.
DestroyRaisingWhenAbsent(state) ==
    IF state \in {"none", "destroyed"} THEN {} ELSE {"destroyed"}

\* _destroy_container_sync 248-257: get, stop, remove in one try block.  A
\* missing container is a warning.  Any other failure is logged: when get or
\* stop raises the container is left running, when stop returns and remove
\* raises it is left stopped ("exited") and not removed.
DestroyOutcomes(state) ==
    CASE state = "running" -> {"destroyed", "running", "exited"}
      [] state = "exited" -> {"destroyed", "exited"}
      [] OTHER -> {state}

\* A finalize_session in which a failed destruction ends the call before the
\* billing block.
FinalizeDestroyAborting(p) ==
    /\ pc[p] = "finalize"
    /\ finalizeCalls' = [finalizeCalls EXCEPT ![p] = @ + 1]
    /\ IF obj[p].container_id # "None"
       THEN /\ destroyCalls' = [destroyCalls EXCEPT ![p] = @ + 1]
            /\ \E after \in DestroyOutcomes(container[p[2]]) :
                 /\ container' = [container EXCEPT ![p[2]] = after]
                 /\ pc' = [pc EXCEPT ![p] =
                              IF after \in {"running", "exited"}
                              THEN IF p[1] = "pipe" THEN "commit3" ELSE "commit"
                              ELSE "finalize_bill"]
       ELSE /\ pc' = [pc EXCEPT ![p] = "finalize_bill"]
            /\ UNCHANGED << destroyCalls, container >>
    /\ UNCHANGED << now, req, overlap, dbVars, subRead, obj, event_counter,
                    exc, cancels, faults, git_result, sub0, otherVars >>

\* finalize_session 224-228, for the pipeline or for a cancel request.
FinalizeDestroy(p) ==
    /\ pc[p] = "finalize"
    /\ finalizeCalls' = [finalizeCalls EXCEPT ![p] = @ + 1]
    /\ IF obj[p].container_id # "None"
       THEN /\ destroyCalls' = [destroyCalls EXCEPT ![p] = @ + 1]
            /\ \E after \in DestroyOutcomes(container[p[2]]) :
                 container' = [container EXCEPT ![p[2]] = after]
       ELSE UNCHANGED << destroyCalls, container >>
    /\ pc' = [pc EXCEPT ![p] = "finalize_bill"]
    /\ UNCHANGED << now, req, overlap, dbVars, subRead, obj, event_counter,
                    exc, cancels, faults, git_result, sub0, otherVars >>

\* A billing block entered for every session that has ended.
BillableWhenEnded(o) == o.ended_at # None

\* if session.duration_seconds and session.duration_seconds > 0
Billable(o) == o.duration_seconds # None /\ o.duration_seconds > 0

\* finalize_session 230-247: the cost is set on the session, a billing record
\* is added, and the select of the Subscription (which first flushes both)
\* loads the committed usage.
FinalizeBilling(p) ==
    /\ pc[p] = "finalize_bill"
    /\ IF Billable(obj[p])
       THEN LET cost_cents == CostCents(obj[p].duration_seconds) IN
            /\ FlushRow(p, [cost_cents |-> cost_cents])
            /\ txBilling' = [txBilling EXCEPT ![p] = Append(@, cost_cents)]
            /\ subRead' = [subRead EXCEPT ![p] = sub]
       ELSE UNCHANGED << obj, tx, rowLock, txBilling, subRead >>
    /\ pc' = [pc EXCEPT ![p] = "finalize_flush"]
    /\ UNCHANGED << now, req, overlap, db, dbEvents, txEvents, billing, sub,
                    subTx, subLock, event_counter, exc, container, cancels,
                    faults, finalizeCalls, destroyCalls, git_result, sub0, otherVars >>

\* finalize_session 248-254: the usage counter is written from the value the
\* Subscription object was loaded with, ended_at is set if it is not, flush.
FinalizeFlush(p) ==
    /\ pc[p] = "finalize_flush"
    /\ IF Billable(obj[p])
       THEN /\ subLock \in {NoProc, p}
            /\ subTx' = subRead[p] + obj[p].duration_seconds
            /\ subLock' = p
       ELSE UNCHANGED << subTx, subLock >>
    /\ IF obj[p].ended_at = None
       THEN FlushRow(p, [ended_at |-> now])
       ELSE UNCHANGED << obj, tx, rowLock >>
    /\ pc' = [pc EXCEPT ![p] = IF p[1] = "pipe" THEN "commit3" ELSE "commit"]
    /\ UNCHANGED << now, req, overlap, db, dbEvents, txEvents, billing,
                    txBilling, sub, subRead, event_counter, exc, container,
                    cancels, faults, finalizeCalls, destroyCalls, git_result, sub0, otherVars >>

PipeFinalizeDestroy(s) == FinalizeDestroy(Pipe(s))
PipeFinalizeBilling(s) == FinalizeBilling(Pipe(s))
PipeFinalizeFlush(s) == FinalizeFlush(Pipe(s))

\* sessions.py 40 (or 55 after the handler's finalize): the run is over.
Commit3(s) ==
    /\ pc[Pipe(s)] = "commit3"
    /\ CommitTx(Pipe(s), NoUpdate)
    /\ pc' = [pc EXCEPT ![Pipe(s)] = "done"]
    /\ UNCHANGED << now, req, overlap, subRead, event_counter, exc, container,
                    cancels, faults, finalizeCalls, destroyCalls, git_result, sub0, otherVars >>

\* sessions.py 42-53: the handler marks the session failed and commits; the
\* finalize of line 54 follows.
HandlerAssignments(s) == [status |-> "failed", error_message |-> exc[s]]

PipelineHandler(s) ==
    /\ pc[Pipe(s)] = "handler"
    /\ CommitTx(Pipe(s), HandlerAssignments(s))
    /\ pc' = [pc EXCEPT ![Pipe(s)] = "finalize"]
    /\ UNCHANGED << now, req, overlap, subRead, event_counter, exc, container,
                    cancels, faults, finalizeCalls, destroyCalls, git_result, sub0, otherVars >>

\* A database call of the pipeline raises (sessions.py 27-40 and the service
\* calls inside): the transaction is rolled back and the exception reaches
\* the handler of line 42.
DbSteps == {"load", "start", "provision", "commit1", "agent_start",
            "agent_run", "push", "commit2", "finalize_bill", "finalize_flush",
            "commit3"}

PipeDbError(s) ==
    /\ pc[Pipe(s)] \in DbSteps
    /\ faults < MaxDbFaults
    /\ faults' = faults + 1
    /\ RollbackTx(Pipe(s))
    /\ exc' = [exc EXCEPT ![s] = "database error"]
    /\ pc' = [pc EXCEPT ![Pipe(s)] = "handler_broken"]
    /\ UNCHANGED << now, req, overlap, subRead, obj, event_counter, container,
                    cancels, finalizeCalls, destroyCalls, git_result, sub0, otherVars >>

\* sessions.py 46-57 after a database error: the AsyncSession refuses further
\* statements until it is rolled back, so the handler's select of line 48
\* raises, the inner except swallows it and the run ends.
HandlerSwallow(s) ==
    /\ pc[Pipe(s)] = "handler_broken"
    /\ pc' = [pc EXCEPT ![Pipe(s)] = "done"]
    /\ UNCHANGED << now, req, overlap, dbVars, subRead, obj, event_counter,
                    exc, container, cancels, faults, finalizeCalls,
                    destroyCalls, git_result, sub0, otherVars >>

\* ----------------------------------------------------------------- cancel
\* sessions.py 128-130: the request's own AsyncSession loads the row.
CancelLoad(s) ==
    /\ Exists(s)
    /\ pc[Cancel(s)] = "idle"
    /\ cancels[s] < MaxCancels
    /\ cancels' = [cancels EXCEPT ![s] = @ + 1]
    /\ obj' = [obj EXCEPT ![Cancel(s)] = db[s]]
    /\ pc' = [pc EXCEPT ![Cancel(s)] = "cancel"]
    /\ UNCHANGED << now, req, overlap, dbVars, subRead, event_counter, exc,
                    container, faults, finalizeCalls, destroyCalls, git_result, sub0, otherVars >>

\* cancel_session 265-269.
CancelSession(s) ==
    /\ pc[Cancel(s)] = "cancel"
    /\ FlushRow(Cancel(s), With([status |-> "cancelled"], EndedNow(obj[Cancel(s)])))
    /\ pc' = [pc EXCEPT ![Cancel(s)] = "finalize"]
    /\ UNCHANGED << now, req, overlap, db, dbEvents, txEvents, billing,
                    txBilling, sub, subTx, subLock, subRead, event_counter,
                    exc, container, cancels, faults, finalizeCalls,
                    destroyCalls, git_result, sub0, otherVars >>

CancelFinalizeDestroy(s) == FinalizeDestroy(Cancel(s))
CancelFinalizeBilling(s) == FinalizeBilling(Cancel(s))
CancelFinalizeFlush(s) == FinalizeFlush(Cancel(s))

\* The cancel request returns and get_db commits (database.py 34).
CancelCommit(s) ==
    /\ pc[Cancel(s)] = "commit"
    /\ CommitTx(Cancel(s), NoUpdate)
    /\ pc' = [pc EXCEPT ![Cancel(s)] = "idle"]
    /\ UNCHANGED << now, req, overlap, subRead, event_counter, exc, container,
                    cancels, faults, finalizeCalls, destroyCalls, git_result, sub0, otherVars >>

\* ------------------------------------------------------------------- Next
PipelineStep(s) ==
    \/ PipeLoad(s)
    \/ StartSession(s)
    \/ CreateDevContainer(s)
    \/ Commit1(s)
    \/ RunAgentStart(s)
    \/ RunTask(s)
    \/ PushChanges(s)
    \/ Commit2(s)
    \/ PipeFinalizeDestroy(s)
    \/ PipeFinalizeBilling(s)
    \/ PipeFinalizeFlush(s)
    \/ Commit3(s)
    \/ PipelineHandler(s)

CancelStep(s) ==
    \/ CancelSession(s)
    \/ CancelFinalizeDestroy(s)
    \/ CancelFinalizeBilling(s)
    \/ CancelFinalizeFlush(s)
    \/ CancelCommit(s)

CreateStep(s) ==
    \/ CreateValidate(s)
    \/ CreateCheck(s)
    \/ CreateInsert(s)

\* One session from its creation request to the end of its pipeline, with
\* cancel requests, database errors and the clock.
Next ==
    \/ Tick
    \/ \E s \in Focus :
         \/ CreateStep(s)
         \/ PipelineStep(s)
         \/ PipeDbError(s)
         \/ HandlerSwallow(s)
         \/ CancelLoad(s)
         \/ CancelStep(s)

Spec == Init /\ [][Next]_vars

\* Two creation requests of the same user and the pipelines they start.
AdmissionNext ==
    \E s \in SessionIds :
         \/ CreateStep(s)
         \/ PipelineStep(s)

SpecAdmission == Init /\ [][AdmissionNext]_vars

\* Two sessions of the same user and their pipelines; the clock advances
\* while both agents run, so that both sessions are billed.
UsageNext ==
    \/ (\A s \in SessionIds : pc[Pipe(s)] = "agent_run") /\ Tick
    \/ \E s \in SessionIds :
         \/ CreateStep(s)
         \/ PipelineStep(s)

SpecUsage == Init /\ [][UsageNext]_vars

\* ----------------------------------------------------- _check_tier_limits
\* Usage values in seconds around the monthly allowances: nothing, 59.9
\* minutes, the allowance, and half a minute more.
UsageValues ==
    UNION { {0, m * 60 - 6, m * 60, m * 60 + TickSeconds} :
            m \in {FreeMinutesPerMonth, ProMinutesPerMonth} }

Subscriptions ==
    {NoSubscription} \cup
    [present : {TRUE}, tier : DOMAIN TIER_LIMITS, minutes_used : UsageValues]

TierCheckInit ==
    /\ SessionInit /\ FeedIdle /\ StreamIdle /\ HubInit /\ SweepInit /\ TaskIdle /\ CleanupIdle /\ FleetInit
    /\ DecodeIdle
    /\ subRow \in Subscriptions
    /\ nActive \in 0..MaxActive
    /\ checkResult = [allowed |-> FALSE, reason |-> "None"]
    /\ checked = FALSE

\* One call of _check_tier_limits.
TierCheck ==
    /\ ~checked
    /\ checkResult' = CheckUser(subRow, nActive)
    /\ checked' = TRUE
    /\ UNCHANGED << notTier, subRow, nActive >>

SpecTierCheck == TierCheckInit /\ [][TierCheck]_vars

\* ------------------------------------------------------ session_websocket
\* websocket.py 60-76: the session is found, the observer is attached and
\* last_sequence starts at 0 (the endpoint takes no cursor from the client).
WsConnect(s) ==
    /\ Exists(s)
    /\ wsPc[s] = "none"
    /\ wsPc' = [wsPc EXCEPT ![s] = "events"]
    /\ last_sequence' = [last_sequence EXCEPT ![s] = 0]
    /\ wsSent' = [wsSent EXCEPT ![s] = << >>]
    /\ UNCHANGED notFeed

\* The committed events with a sequence greater than n, ordered by sequence.
EventsAfter(s, n) == SelectSeq(GetSessionEvents(s), LAMBDA q : q > n)

\* websocket.py 101-120: the committed events after last_sequence are
\* selected and sent one by one; last_sequence follows.
WsSendEvents(s) ==
    /\ wsPc[s] = "events"
    /\ LET new_events == EventsAfter(s, last_sequence[s]) IN
       /\ wsSent' = [wsSent EXCEPT ![s] = @ \o new_events]
       /\ last_sequence' = [last_sequence EXCEPT ![s] =
                              IF new_events = << >> THEN @
                              ELSE new_events[Len(new_events)]]
    /\ wsPc' = [wsPc EXCEPT ![s] = "status"]
    /\ UNCHANGED notFeed

\* The statuses at which the feed sends session_ended (websocket.py 126-130).
FeedEndStatuses == {"completed", "failed", "cancelled"}

\* websocket.py 122-139: the session row is selected; on an end status the
\* feed sends session_ended and leaves the loop, otherwise it polls again.
WsCheckStatus(s) ==
    /\ wsPc[s] = "status"
    /\ wsPc' = [wsPc EXCEPT ![s] =
                  IF db[s].status \in FeedEndStatuses THEN "ended" ELSE "events"]
    /\ UNCHANGED << notFeed, last_sequence, wsSent >>

FeedStep(s) ==
    \/ WsConnect(s)
    \/ WsSendEvents(s)
    \/ WsCheckStatus(s)

\* One session, its pipeline and an observer of its live feed.
FeedNext ==
    \E s \in Focus :
         \/ CreateStep(s)
         \/ PipelineStep(s)
         \/ FeedStep(s)

SpecFeed == Init /\ [][FeedNext]_vars

\* -------------------------------------------------------- exec_streaming
\* Text is a sequence of tokens: the line feed and pieces of text without a
\* line feed.  Text42 is the JSON number 42, which json.loads decodes to a
\* value that is not a dict; TextHello is text that is not JSON; the two
\* prefixes are the texts _stream_command tests with startswith.
NL == "\n"
TextHello == "hello"
Text42 == "42"
ExitCodePrefix == "__EXIT_CODE__:"
ExecErrorPrefix == "__EXEC_ERROR__:"

\* What the streamed command may write, and the exit codes it may end with.
Tokens == {NL, TextHello, Text42, ExecErrorPrefix}
ExitCodes == {0, 3}

RECURSIVE TextsUpTo(_)
TextsUpTo(n) ==
    IF n = 0 THEN {<< >>}
    ELSE LET shorter == TextsUpTo(n - 1)
         IN shorter \cup {Append(t, c) : t \in shorter, c \in Tokens}

\* f"{exit_code}" (container_service.py 191) and int(...) (agent_service.py
\* 164) on the exit codes.
CodeText(c) == CASE c = 0 -> "0" [] c = 3 -> "3" [] OTHER -> "-1"
IntOf(text) == CASE text = "0" -> 0 [] text = "3" -> 3 [] OTHER -> None

ExitSentinel(c) == << ExitCodePrefix, CodeText(c) >>
ErrorSentinel == << ExecErrorPrefix, "error" >>
\* The None that ends the queue.
QueueEnd == << "None" >>

\* The position of the first line feed of buf, 0 when it has none.
FirstNewline(buf) ==
    IF \E i \in 1..Len(buf) : buf[i] = NL
    THEN CHOOSE i \in 1..Len(buf) :
             buf[i] = NL /\ \A j \in 1..(i - 1) : buf[j] # NL
    ELSE 0

\* The loop of 182-184: the lines split off the buffer, and what is left.
RECURSIVE SplitLines(_)
SplitLines(buf) ==
    LET i == FirstNewline(buf)
    IN IF i = 0 THEN << >>
       ELSE << SubSeq(buf, 1, i - 1) >> \o SplitLines(SubSeq(buf, i + 1, Len(buf)))

RECURSIVE SplitRest(_)
SplitRest(buf) ==
    LET i == FirstNewline(buf)
    IN IF i = 0 THEN buf ELSE SplitRest(SubSeq(buf, i + 1, Len(buf)))

\* 186-187: what is left in the buffer at the end of the stream is put on
\* the queue when it is not empty.
FinalLineDropped(buf) == << >>

FinalLine(buf) == IF buf # << >> THEN << buf >> ELSE << >>

StreamInit ==
    /\ SessionInit /\ FeedIdle /\ TierIdle /\ HubInit /\ SweepInit /\ TaskIdle /\ CleanupIdle /\ FleetInit
    /\ DecodeIdle
    /\ ExitCode \in ExitCodes
    /\ output \in TextsUpTo(MaxOutput)
    /\ received = << >>
    /\ buffer = << >>
    /\ queue = << >>
    /\ execPc = "exec_create"
    /\ execFault = "none"
    /\ RunnerInit

\* 170-178: exec_create and exec_start; either may raise (no such container,
\* container not running, connection to the daemon lost).
ExecCreate ==
    /\ execPc = "exec_create"
    /\ \E ok \in BOOLEAN :
         IF ok THEN /\ execPc' = "stream"
                    /\ UNCHANGED << queue, execFault >>
         ELSE /\ queue' = Append(queue, ErrorSentinel)
              /\ execFault' = "create"
              /\ execPc' = "finally"
    /\ UNCHANGED << notStream, ExitCode, output, received, buffer, runnerVars >>

\* 179-184: one chunk of the stream.
ReadChunk ==
    /\ execPc = "stream" /\ output # << >>
    /\ \E k \in 1..MaxChunk :
         /\ k <= Len(output)
         /\ LET chunk == SubSeq(output, 1, k)
                text == buffer \o chunk
            IN /\ queue' = queue \o SplitLines(text)
               /\ buffer' = SplitRest(text)
               /\ received' = received \o chunk
               /\ output' = SubSeq(output, k + 1, Len(output))
    /\ UNCHANGED << notStream, ExitCode, execPc, execFault, runnerVars >>

\* 179, 193-194: reading the stream raises (connection to the daemon lost).
StreamBreaks ==
    /\ execPc = "stream"
    /\ queue' = Append(queue, ErrorSentinel)
    /\ execFault' = "stream"
    /\ execPc' = "finally"
    /\ UNCHANGED << notStream, ExitCode, output, received, buffer, runnerVars >>

\* 186-187: the stream is exhausted.
StreamEnd ==
    /\ execPc = "stream" /\ output = << >>
    /\ queue' = queue \o FinalLine(buffer)
    /\ execPc' = "exec_inspect"
    /\ UNCHANGED << notStream, ExitCode, output, received, buffer, execFault,
                    runnerVars >>

\* 189-194: exec_inspect and the exit-code sentinel; exec_inspect may raise.
ExecInspect ==
    /\ execPc = "exec_inspect"
    /\ \E ok \in BOOLEAN :
         IF ok THEN /\ queue' = Append(queue, ExitSentinel(ExitCode))
                    /\ UNCHANGED execFault
         ELSE /\ queue' = Append(queue, ErrorSentinel)
              /\ execFault' = "inspect"
    /\ execPc' = "finally"
    /\ UNCHANGED << notStream, ExitCode, output, received, buffer, runnerVars >>

\* 197-199: the finally clause.
ExecFinally ==
    /\ execPc = "finally"
    /\ queue' = Append(queue, QueueEnd)
    /\ execPc' = "done"
    /\ UNCHANGED << notStream, ExitCode, output, received, buffer, execFault,
                    runnerVars >>

\* --------------------------------------------------------- _stream_command
\* Further pieces of text a line may be made of: a blank, the two braces,
\* the members "type":"assistant","content":"hello" of a JSON object, and
\* text that is not JSON.
SP == " "
LBrace == "{"
RBrace == "}"
AssistantHello == "\"type\":\"assistant\",\"content\":\"hello\""
TextBuild == "build succeeded"

\* str.strip() (251): the line without its leading and trailing blanks.
RECURSIVE LStrip(_)
LStrip(text) ==
    IF text # << >> /\ Head(text) = SP THEN LStrip(Tail(text)) ELSE text

RECURSIVE RStrip(_)
RStrip(text) ==
    IF text # << >> /\ text[Len(text)] = SP
    THEN RStrip(SubSeq(text, 1, Len(text) - 1)) ELSE text

Strip(text) == RStrip(LStrip(text))

\* The text without any blank: JSON ignores blanks between its tokens.
RECURSIVE Unspaced(_)
Unspaced(text) ==
    IF text = << >> THEN << >>
    ELSE IF Head(text) = SP THEN Unspaced(Tail(text))
    ELSE << Head(text) >> \o Unspaced(Tail(text))

\* json.loads (255) on a stripped, non-empty text: the object with the
\* assistant members, the empty object, a number, or JSONDecodeError.
JSONDecodeError == [kind |-> "error"]

JsonLoads(text) ==
    CASE Unspaced(text) = << LBrace, AssistantHello, RBrace >> ->
            [kind |-> "dict", type |-> "assistant", content |-> << TextHello >>]
      [] Unspaced(text) = << LBrace, RBrace >> ->
            [kind |-> "dict", type |-> "", content |-> << >>]
      [] \A i \in 1..Len(text) : text[i] = Text42 -> [kind |-> "value"]
      [] OTHER -> JSONDecodeError

\* _parse_stream_line returned None.
NoneParsed == [kind |-> "none"]

\* A _parse_stream_line that takes every line that is not JSON for text.
ParseStreamLineAnyText(text) ==
    LET stripped == Strip(text)
    IN IF stripped = << >> THEN NoneParsed
       ELSE IF JsonLoads(stripped) # JSONDecodeError THEN JsonLoads(stripped)
       ELSE [kind |-> "dict", type |-> "assistant", content |-> text]

\* _parse_stream_line 250-259.
ParseStreamLine(text) ==
    LET stripped == Strip(text)
    IN IF stripped = << >> THEN NoneParsed
       ELSE IF JsonLoads(stripped) # JSONDecodeError THEN JsonLoads(stripped)
       ELSE IF stripped[1] # LBrace
       THEN [kind |-> "dict", type |-> "assistant", content |-> stripped]
       ELSE NoneParsed

AgentMessage(content) == [type |-> "agent_message", content |-> content]

\* _stream_command 179-223 on what _parse_stream_line returned: None is
\* skipped; .get on a value that is not a dict raises; an assistant message
\* or a message of an unknown type with a content is one agent_message event
\* (_extract_text 261-277 returns a string content as it is).
HandleParsed(msg) ==
    CASE msg.kind = "none" -> [raised |-> FALSE, events |-> << >>]
      [] msg.kind = "value" -> [raised |-> TRUE, events |-> << >>]
      [] OTHER ->
            [raised |-> FALSE,
             events |-> IF msg.content # << >>
                        THEN << AgentMessage(msg.content) >> ELSE << >>]

DecodeLine(text) == HandleParsed(ParseStreamLine(text))

\* What _stream_command makes of a line (agent_service.py 163-223):
\*   "exit"   the line starts with the exit-code prefix,
\*   "error"  the line starts with the exec-error prefix,
\*   "value"  handling what was parsed raises,
\*   "empty"  the line is decoded to no event,
\*   "text"   the line is decoded to an agent_message event.
LineKindIgnoringError(text) ==
    CASE text # << >> /\ text[1] = ExitCodePrefix -> "exit"
      [] OTHER ->
            IF DecodeLine(text).raised THEN "value"
            ELSE IF DecodeLine(text).events = << >> THEN "empty" ELSE "text"

LineKind(text) ==
    CASE text # << >> /\ text[1] = ExitCodePrefix -> "exit"
      [] text # << >> /\ text[1] = ExecErrorPrefix -> "error"
      [] OTHER ->
            IF DecodeLine(text).raised THEN "value"
            ELSE IF DecodeLine(text).events = << >> THEN "empty" ELSE "text"

\* 236: success = exit_code == 0.
SuccessAlways(code) == TRUE

Success(code) == code = 0

\* 167-176 and 225-234: the two early returns.
Failure == [success |-> FALSE, exit_code |-> None]

\* One turn of "async for line in exec_streaming(...)": the generator takes
\* the next item off the queue (container_service.py 203-207); on None it
\* ends and _stream_command leaves its loop (236-248), otherwise it yields
\* the line and _stream_command handles it (163-223).
StreamGet ==
    /\ genPc = "waiting" /\ ~returned /\ queue # << >>
    /\ LET line == Head(queue)
           kind == LineKind(line)
       IN /\ queue' = Tail(queue)
          /\ IF line = QueueEnd
             THEN /\ genPc' = "ended"
                  /\ forwarded' = Append(forwarded, "agent_message")
                  /\ streamResult' = [success |-> Success(exit_code),
                                      exit_code |-> exit_code]
                  /\ returned' = TRUE
                  /\ UNCHANGED << yielded, exit_code, parsed >>
             ELSE /\ yielded' = Append(yielded, line)
                  /\ genPc' = genPc
                  /\ CASE kind = "exit" ->
                            /\ exit_code' = IntOf(line[2])
                            /\ UNCHANGED << parsed, forwarded, returned,
                                            streamResult >>
                       [] kind = "error" ->
                            /\ forwarded' = Append(forwarded, "error")
                            /\ streamResult' = Failure
                            /\ returned' = TRUE
                            /\ UNCHANGED << exit_code, parsed >>
                       [] kind = "empty" ->
                            /\ parsed' = parsed + 1
                            /\ UNCHANGED << exit_code, forwarded, returned,
                                            streamResult >>
                       [] kind = "value" ->
                            /\ parsed' = parsed + 1
                            /\ forwarded' = Append(forwarded, "error")
                            /\ streamResult' = Failure
                            /\ returned' = TRUE
                            /\ UNCHANGED exit_code
                       [] OTHER ->
                            /\ parsed' = parsed + 1
                            /\ forwarded' = Append(forwarded, "agent_message")
                            /\ UNCHANGED << exit_code, returned, streamResult >>
    /\ UNCHANGED << notStream, ExitCode, output, received, buffer, execPc,
                    execFault >>

StreamNext ==
    \/ ExecCreate
    \/ ReadChunk
    \/ StreamBreaks
    \/ StreamEnd
    \/ ExecInspect
    \/ ExecFinally
    \/ StreamGet

SpecStream == StreamInit /\ [][StreamNext]_vars

\* ------------------------------------------------------ ConnectionManager
\* list.remove(x): the list without the first occurrence of x.
Remove(list, x) ==
    LET i == CHOOSE k \in 1..Len(list) :
                 list[k] = x /\ \A j \in 1..(k - 1) : list[j] # x
    IN SubSeq(list, 1, i - 1) \o SubSeq(list, i + 1, Len(list))

In(list, x) == \E k \in 1..Len(list) : list[k] = x

\* connect (21-25).
Connect(w) ==
    /\ conn[w] = "new"
    /\ conn' = [conn EXCEPT ![w] = "attached"]
    /\ hasKey' = TRUE
    /\ active_connections' = Append(active_connections, w)
    /\ UNCHANGED << notHub, bPc, bIdx, sameList, dead, delivered, throughout >>

\* disconnect (27-31), called from the finally clause of the observer's
\* handler (145-146).  remove raises ValueError when the broadcast has
\* already taken the websocket off the list ("raised"); the handler ends
\* either way.
Disconnect(w) ==
    /\ conn[w] = "attached"
    /\ conn' = [conn EXCEPT ![w] =
                  IF hasKey /\ ~In(active_connections, w)
                  THEN "raised" ELSE "gone"]
    /\ throughout' = throughout \ {w}
    /\ IF hasKey /\ In(active_connections, w)
       THEN LET rest == Remove(active_connections, w)
            IN /\ active_connections' = rest
               /\ hasKey' = (rest # << >>)
               /\ sameList' = (sameList /\ rest # << >>)
       ELSE UNCHANGED << active_connections, hasKey, sameList >>
    /\ UNCHANGED << notHub, bPc, bIdx, dead, delivered >>

\* broadcast 33-35: without the key nothing is done; otherwise the for loop
\* starts on the list object of the session.
BroadcastBegin ==
    /\ bPc = "idle"
    /\ bPc' = IF hasKey THEN "loop" ELSE "done"
    /\ sameList' = hasKey
    /\ throughout' = {w \in Observers : conn[w] = "attached"}
    /\ UNCHANGED << notHub, active_connections, hasKey, conn, bIdx, dead,
                    delivered >>

\* The list object the for loop iterates: a list taken out of the dict was
\* empty when it was taken out and nothing refers to it any more.
Iterated == IF sameList THEN active_connections ELSE << >>

\* broadcast 36-40: one turn of the for loop.  The list iterator yields the
\* item at its index and advances; send_json returns or raises.
BroadcastSend ==
    /\ bPc = "loop" /\ bIdx < Len(Iterated)
    /\ LET ws == Iterated[bIdx + 1]
       IN \E ok \in BOOLEAN :
            IF ok THEN /\ delivered' = delivered \cup {ws}
                       /\ UNCHANGED dead
            ELSE /\ dead' = Append(dead, ws)
                 /\ UNCHANGED delivered
    /\ bIdx' = bIdx + 1
    /\ UNCHANGED << notHub, active_connections, hasKey, conn, bPc, sameList,
                    throughout >>

\* The list after "for ws in dead: ...remove(ws)", or the reason it raised.
RECURSIVE RemoveAll(_, _)
RemoveAll(list, ds) ==
    IF ds = << >> THEN [raised |-> FALSE, list |-> list]
    ELSE IF ~In(list, Head(ds)) THEN [raised |-> TRUE, list |-> list]
    ELSE RemoveAll(Remove(list, Head(ds)), Tail(ds))

\* broadcast 41-42: the iterator is exhausted; the dead are removed.  The
\* subscript raises KeyError when the key is gone, remove raises ValueError
\* when the websocket is no longer on the list.
BroadcastRemoveDead ==
    /\ bPc = "loop" /\ bIdx >= Len(Iterated)
    /\ IF dead = << >> THEN bPc' = "done" /\ UNCHANGED active_connections
       ELSE IF ~hasKey THEN bPc' = "raised" /\ UNCHANGED active_connections
       ELSE LET r == RemoveAll(active_connections, dead)
            IN /\ active_connections' = r.list
               /\ bPc' = IF r.raised THEN "raised" ELSE "done"
    /\ UNCHANGED << notHub, hasKey, conn, bIdx, sameList, dead, delivered,
                    throughout >>

HubNext ==
    \/ \E w \in Observers : Connect(w) \/ Disconnect(w)
    \/ BroadcastBegin
    \/ BroadcastSend
    \/ BroadcastRemoveDead

SpecHub == Init /\ [][HubNext]_vars

\* ------------------------------------------------- _cleanup_expired_sync
\* An hour passes: every container that was created is an hour older.
HourTick ==
    /\ \E s \in SessionIds : container[s] # "none" /\ hours_alive[s] < MaxHours
    /\ hours_alive' = [s \in SessionIds |->
                          IF container[s] # "none" /\ hours_alive[s] < MaxHours
                          THEN hours_alive[s] + 1 ELSE hours_alive[s]]
    /\ UNCHANGED << sessionVars, notSweep >>

\* containers.list without all=True returns the running containers only
\* (275-276); the sweep handles those older than the maximum lifetime
\* (282-286).
Expired(s) ==
    container[s] = "running" /\ hours_alive[s] > CONTAINER_MAX_LIFETIME_HOURS

\* 287-290: stop and remove succeed.
SweepCleans(s) ==
    /\ Expired(s)
    /\ container' = [container EXCEPT ![s] = "destroyed"]
    /\ UNCHANGED << now, req, overlap, dbVars, subRead, pc, obj,
                    event_counter, exc, cancels, faults, finalizeCalls,
                    destroyCalls, git_result, sub0, otherVars >>

\* 287-292: stop returns and remove raises; the error is logged and the
\* container stays, stopped.  (When stop raises nothing changes.)
SweepFails(s) ==
    /\ Expired(s)
    /\ container' = [container EXCEPT ![s] = "exited"]
    /\ UNCHANGED << now, req, overlap, dbVars, subRead, pc, obj,
                    event_counter, exc, cancels, faults, finalizeCalls,
                    destroyCalls, git_result, sub0, otherVars >>

\* One session and its pipeline, database errors, the hours and the sweep.
SweepNext ==
    \/ HourTick
    \/ \E s \in Focus :
         \/ CreateStep(s)
         \/ PipelineStep(s)
         \/ PipeDbError(s)
         \/ HandlerSwallow(s)
         \/ SweepCleans(s)
         \/ SweepFails(s)

\* The hours pass, the pipeline is scheduled, and the sweep runs repeatedly:
\* an expired container that keeps being listed is eventually swept with
\* success.
SweepFairness ==
    /\ WF_vars(HourTick)
    /\ \A s \in Focus :
          /\ WF_vars(CreateStep(s) \/ PipelineStep(s) \/ HandlerSwallow(s))
          /\ SF_vars(SweepCleans(s))

SpecSweep == Init /\ [][SweepNext]_vars /\ SweepFairness

\* ------------------------------------------------------------ the decoder
\* The lines given to the decoder.
LineTokens == {SP, LBrace, RBrace, AssistantHello, TextBuild, Text42}

RECURSIVE LinesUpTo(_)
LinesUpTo(n) ==
    IF n = 0 THEN {<< >>}
    ELSE LET shorter == LinesUpTo(n - 1)
         IN shorter \cup {Append(l, c) : l \in shorter, c \in LineTokens}

DecodeInit ==
    /\ SessionInit /\ FeedIdle /\ TierIdle /\ StreamIdle /\ HubInit
    /\ SweepInit /\ TaskIdle /\ CleanupIdle /\ FleetInit
    /\ inputLine \in LinesUpTo(MaxLine)
    /\ decoded = [raised |-> FALSE, events |-> << >>]
    /\ decodeDone = FALSE

\* _stream_command 178-223 on one line that is not a sentinel.
Decode ==
    /\ ~decodeDone
    /\ decoded' = DecodeLine(inputLine)
    /\ decodeDone' = TRUE
    /\ UNCHANGED << notDecode, inputLine >>

SpecDecoder == DecodeInit /\ [][Decode]_vars

\* ------------------------------------------- containers and their sessions
\* client.containers.run (container_service.py 82): the daemon gives the new
\* container an id no container had before.
Created == {id \in ContainerIds : dockerd[id].state # "none"}
FreshId == ContainerSeq[Cardinality(Created) + 1]

\* Every call issued on the first container.
TargetFirst(container_id) == ContainerSeq[1]

\* container_id=session.container_id: the container a call is issued on.
Target(container_id) == container_id

\* start_session 89-115 for session s: docker run fails, or the container
\* runs with the session's label and the clone fails, or the container's id
\* is stored on the session.
OwnStart(s) ==
    /\ ownPc[s] = "pending"
    /\ \E outcome \in {"ok", "run_failed", "clone_failed"} :
         /\ dockerd' = IF outcome = "run_failed" THEN dockerd
                       ELSE [dockerd EXCEPT ![FreshId] =
                                [label |-> s, state |-> "running"]]
         /\ ownObj' = [ownObj EXCEPT ![s] =
                         IF outcome = "ok" THEN FreshId ELSE @]
         /\ ownPc' = [ownPc EXCEPT ![s] =
                        IF outcome = "ok" THEN "commit1" ELSE "handler"]
    /\ UNCHANGED << notFleet, ownRow, ownCancel, ownSeen, calls >>

\* sessions.py 34: the commit after start_session.
OwnCommit1(s) ==
    /\ ownPc[s] = "commit1"
    /\ ownRow' = [ownRow EXCEPT ![s] = ownObj[s]]
    /\ ownPc' = [ownPc EXCEPT ![s] = "agent"]
    /\ UNCHANGED << notFleet, dockerd, ownObj, ownCancel, ownSeen, calls >>

\* run_agent 156-162: run_task(container_id=session.container_id).  The
\* task can only succeed in a running container.
OwnRunTask(s) ==
    /\ ownPc[s] = "agent"
    /\ ownObj[s] # "None"
    /\ LET id == Target(ownObj[s]) IN
         /\ calls' = calls \cup {<< s, "exec", id, dockerd[id].state >>}
         /\ \E success \in BOOLEAN :
              /\ success => dockerd[id].state = "running"
              /\ ownPc' = [ownPc EXCEPT ![s] =
                             IF success THEN "push" ELSE "finalize"]
    /\ UNCHANGED << notFleet, dockerd, ownObj, ownRow, ownCancel, ownSeen >>

\* run_agent 177-182: git_commit_and_push(container_id=session.container_id).
OwnPush(s) ==
    /\ ownPc[s] = "push"
    /\ LET id == Target(ownObj[s]) IN
         calls' = calls \cup {<< s, "push", id, dockerd[id].state >>}
    /\ ownPc' = [ownPc EXCEPT ![s] = "finalize"]
    /\ UNCHANGED << notFleet, dockerd, ownObj, ownRow, ownCancel, ownSeen >>

\* finalize_session 224-228 issued with container_id cid by session s.
OwnDestroy(s, cid) ==
    IF cid # "None"
    THEN LET id == Target(cid) IN
         /\ calls' = calls \cup {<< s, "destroy", id, dockerd[id].state >>}
         /\ \E after \in DestroyOutcomes(dockerd[id].state) :
              dockerd' = [dockerd EXCEPT ![id].state = after]
    ELSE UNCHANGED << calls, dockerd >>

\* The pipeline's finalize_session: on its own session object
\* (sessions.py 38), or after a failed start on the session the handler
\* selects again (sessions.py 45-55), which has the committed container_id.
OwnFinalize(s) ==
    /\ ownPc[s] \in {"finalize", "handler"}
    /\ OwnDestroy(s, IF ownPc[s] = "handler" THEN ownRow[s] ELSE ownObj[s])
    /\ ownPc' = [ownPc EXCEPT ![s] = "done"]
    /\ UNCHANGED << notFleet, ownObj, ownRow, ownCancel, ownSeen >>

\* The cancel route loads the session (sessions.py 122-131).
OwnCancelLoad(s) ==
    /\ ownCancel[s] = "idle"
    /\ ownSeen' = [ownSeen EXCEPT ![s] = ownRow[s]]
    /\ ownCancel' = [ownCancel EXCEPT ![s] = "loaded"]
    /\ UNCHANGED << notFleet, dockerd, ownPc, ownObj, ownRow, calls >>

\* cancel_session's finalize_session on the session it loaded.
OwnCancelFinalize(s) ==
    /\ ownCancel[s] = "loaded"
    /\ OwnDestroy(s, ownSeen[s])
    /\ ownCancel' = [ownCancel EXCEPT ![s] = "done"]
    /\ UNCHANGED << notFleet, ownPc, ownObj, ownRow, ownSeen >>

FleetNext ==
    \E s \in Owners :
        \/ OwnStart(s)
        \/ OwnCommit1(s)
        \/ OwnRunTask(s)
        \/ OwnPush(s)
        \/ OwnFinalize(s)
        \/ OwnCancelLoad(s)
        \/ OwnCancelFinalize(s)

SpecFleet == Init /\ [][FleetNext]_vars

\* ------------------------------------------- cleanup_expired_containers
\* The containers a host can hold when the cleanup is called: with or without
\* the adelbot.session_id label (created_at is set with it, 93-96), running or
\* stopped, of an age around the maximum lifetime.
Ages == (MaxHours - 2)..MaxHours
HostContainers ==
    {NoContainer} \cup
    [label : {"None"} \cup Owners, state : {"running", "exited"}, hours : Ages]

CleanupInit ==
    /\ SessionInit /\ FeedIdle /\ TierIdle /\ StreamIdle /\ HubInit
    /\ SweepInit /\ TaskIdle /\ FleetInit /\ DecodeIdle
    /\ daemon \in [ContainerIds -> HostContainers]
    /\ atCall = daemon
    /\ toVisit = << >>
    /\ cleanPc = "idle"
    /\ errors = {}
    /\ cleaned = 0

\* client.containers.list(filters={"label": "adelbot.session_id"}) (275):
\* without all=True the daemon lists running containers only.
Listed(d) ==
    SelectSeq(ContainerSeq,
              LAMBDA id : d[id].state = "running" /\ d[id].label # "None")

\* hours_alive > settings.CONTAINER_MAX_LIFETIME_HOURS (285).
TooOld(hours) == hours > CONTAINER_MAX_LIFETIME_HOURS

\* _cleanup_expired_sync 274-277.
CleanupCall ==
    /\ cleanPc = "idle"
    /\ toVisit' = Listed(daemon)
    /\ atCall' = daemon
    /\ cleaned' = 0
    /\ errors' = {}
    /\ cleanPc' = "loop"
    /\ UNCHANGED << notCleanup, daemon >>

\* One pass of the for loop (279-292): an old container is stopped and
\* removed and counted; when stop raises it stays as it is, when remove
\* raises it stays stopped; either error is logged and the loop goes on.
CleanupVisit ==
    /\ cleanPc = "loop"
    /\ toVisit # << >>
    /\ LET id == Head(toVisit) IN
         IF TooOld(daemon[id].hours)
         THEN \E outcome \in {"ok", "stop_raises", "remove_raises"} :
                /\ daemon' = [daemon EXCEPT ![id].state =
                                 CASE outcome = "ok" -> "destroyed"
                                   [] outcome = "remove_raises" -> "exited"
                                   [] OTHER -> @]
                /\ cleaned' = IF outcome = "ok" THEN cleaned + 1 ELSE cleaned
                /\ errors' = IF outcome = "ok" THEN errors
                             ELSE errors \cup {id}
         ELSE UNCHANGED << daemon, cleaned, errors >>
    /\ toVisit' = Tail(toVisit)
    /\ UNCHANGED << notCleanup, atCall, cleanPc >>

\* return cleaned (294).
CleanupReturn ==
    /\ cleanPc = "loop"
    /\ toVisit = << >>
    /\ cleanPc' = "returned"
    /\ UNCHANGED << notCleanup, daemon, atCall, toVisit, errors, cleaned >>

CleanupNext == CleanupCall \/ CleanupVisit \/ CleanupReturn

SpecCleanup == CleanupInit /\ [][CleanupNext]_vars

\* ------------------------------------------------------ AgentService.run_task
\* run_task is called with either mode on a session's running container.
TaskInit ==
    /\ SessionInit /\ FeedIdle /\ TierIdle /\ StreamIdle /\ HubInit
    /\ SweepInit /\ CleanupIdle /\ FleetInit /\ DecodeIdle
    /\ execution_mode \in {"claude", "cdm"}
    /\ taskPc = "start"
    /\ taskContainer = "running"
    /\ cmd = "None"
    /\ ran = << >>
    /\ taskResult = NoResult

\* The container is destroyed while the task runs (a cancel request or the
\* expiry sweep).
TaskContainerGone ==
    /\ taskPc \notin {"idle", "returned", "raised"}
    /\ taskContainer = "running"
    /\ taskContainer' = "destroyed"
    /\ UNCHANGED << notTask, execution_mode, taskPc, cmd, ran, taskResult >>

\* run_task 35-41 and _run_claude_code 51-61: quick mode builds the claude
\* command and streams it; cdm mode goes to _run_cdm_pipeline.
TaskRun ==
    /\ taskPc = "start"
    /\ IF execution_mode = "cdm"
       THEN taskPc' = "check" /\ cmd' = cmd
       ELSE taskPc' = "stream" /\ cmd' = "claude"
    /\ UNCHANGED << notTask, execution_mode, taskContainer, ran, taskResult >>

\* container_service.exec_command (140-155) of command c going to position
\* ok when it exits with 0 and to position ko otherwise: containers.get
\* raises when the container is gone, and nothing in _run_cdm_pipeline
\* catches it.
ExecCommand(c, ok, ko) ==
    IF taskContainer # "running"
    THEN taskPc' = "raised" /\ ran' = ran
    ELSE \E zero \in BOOLEAN :
           /\ ran' = Append(ran, << "exec", c, zero >>)
           /\ taskPc' = IF zero THEN ok ELSE ko

\* _run_cdm_pipeline 98 and _check_cdm_available 132-134: "which cdm".
CdmCheck ==
    /\ taskPc = "check"
    /\ ExecCommand("which cdm", "init", "install")
    /\ UNCHANGED << notTask, execution_mode, taskContainer, cmd, taskResult >>

\* _run_cdm_pipeline 99-115: the install; when it fails the quick-mode run
\* is made instead and its result returned.
CdmInstall ==
    /\ taskPc = "install"
    /\ ExecCommand("install", "init", "stream")
    /\ cmd' = IF taskPc' = "stream" THEN "claude" ELSE cmd
    /\ UNCHANGED << notTask, execution_mode, taskContainer, taskResult >>

\* _run_cdm_pipeline 117-126: "cdm init", whose exit code only decides an
\* event, then the pipeline command is built and streamed.
CdmInit ==
    /\ taskPc = "init"
    /\ ExecCommand("cdm init", "stream", "stream")
    /\ cmd' = IF taskPc' = "stream" THEN "cdm" ELSE cmd
    /\ UNCHANGED << notTask, execution_mode, taskContainer, taskResult >>

\* What _stream_command (145-248) can return for a command in a container:
\* the exec error when the exec cannot be made, otherwise the exit code with
\* success = exit_code == 0.
StreamResults(up) ==
    {Failure} \cup
    (IF up THEN {[success |-> Success(c), exit_code |-> c] : c \in ExitCodes}
     ELSE {})

\* return await self._stream_command(container_id, cmd, ...) (61, 126).
TaskStream ==
    /\ taskPc = "stream"
    /\ \E r \in StreamResults(taskContainer = "running") :
         /\ taskResult' = r
         /\ ran' = Append(ran, << "stream", cmd, r.success >>)
    /\ taskPc' = "returned"
    /\ UNCHANGED << notTask, execution_mode, taskContainer, cmd >>

TaskNext ==
    \/ TaskContainerGone
    \/ TaskRun
    \/ CdmCheck
    \/ CdmInstall
    \/ CdmInit
    \/ TaskStream

SpecTask == TaskInit /\ [][TaskNext]_vars

\* ----------------------------------------------------------------- claims
Terminal(s) == Exists(s) /\ db[s].status \in TerminalStatuses

\* C1: terminal statuses are absorbing: once the committed status of a session
\* is completed, failed, cancelled or timed_out, no step changes it.
C1_TerminalAbsorbing ==
    [][\A s \in SessionIds : Terminal(s) => db'[s].status = db[s].status]_vars

\* finalize_session ran to its commit twice on session s, from the pipeline
\* and from a cancel request, each time with a positive recorded duration.
FinalizedTwice(s) ==
    /\ pc[Pipe(s)] = "done" /\ finalizeCalls[Pipe(s)] = 1
    /\ pc[Cancel(s)] = "idle" /\ finalizeCalls[Cancel(s)] = 1
    /\ faults = 0
    /\ Billable(obj[Pipe(s)]) /\ Billable(obj[Cancel(s)])

\* C2: finalize_session is idempotent: after two calls on the same session
\* with a positive duration there is exactly one billing record and the
\* usage counter has grown by the session's minutes once.
C2_FinalizeIdempotent ==
    \A s \in SessionIds :
        FinalizedTwice(s) =>
            /\ Len(billing[s]) = 1
            /\ sub - sub0 \in {obj[Pipe(s)].duration_seconds,
                               obj[Cancel(s)].duration_seconds}

\* C3: in every reachable state a session has at most one session-charge
\* billing record.
C3_AtMostOneCharge == \A s \in SessionIds : Len(billing[s]) <= 1

\* C4: every execution of the pipeline invokes finalize_session exactly once.
C4_FinalizeExactlyOnce ==
    \A s \in SessionIds : pc[Pipe(s)] = "done" => finalizeCalls[Pipe(s)] = 1

RequestDone(s) == req[s] \notin {"none", "received", "admitted"}

\* C5: of two concurrent creation requests of a user with a concurrency
\* allowance of 1 and no active session, exactly one is admitted and the
\* other is denied with the concurrency reason.
C5_OneAdmittedOneDenied ==
    (overlap /\ \A s \in SessionIds : RequestDone(s)) =>
        \E a \in SessionIds :
            /\ req[a] = "created"
            /\ \A b \in SessionIds \ {a} : req[b] = ConcurrencyReason(UserTier)

\* C6: the number of the user's sessions in provisioning, running or
\* agent_working never exceeds a finite concurrency allowance.
C6_ConcurrencyBound ==
    TIER_LIMITS[UserTier].max_concurrent_sessions > 0 =>
        Cardinality(ActiveSessions) <= TIER_LIMITS[UserTier].max_concurrent_sessions

\* C7: a session whose pipeline was started reaches a terminal status: when
\* the pipeline run is over and no cancel request was made, the committed
\* status (which only the pipeline has written) is terminal.
C7_PipelineEndsTerminal ==
    \A s \in SessionIds :
        (pc[Pipe(s)] = "done" /\ cancels[s] = 0) =>
            db[s].status \in TerminalStatuses

\* C8: ended_at is set if and only if the status is terminal.
C8_EndedIffTerminal ==
    \A s \in SessionIds :
        Exists(s) => (db[s].ended_at # None <=> db[s].status \in TerminalStatuses)

\* C9: a session that completed because the commit step reported "nothing to
\* commit" has status completed, no commit_sha and no files_changed.
C9_NothingToCommit ==
    \A s \in SessionIds :
        git_result[s] = "nothing to commit" =>
            /\ obj[Pipe(s)].status = "completed"
            /\ obj[Pipe(s)].commit_sha = "None"
            /\ obj[Pipe(s)].files_changed = None

\* C10: when the clone fails after the container was started, the session is
\* failed with the captured error and the pipeline run invokes destroy for
\* the container.
C10_CloneFailureTeardown ==
    \A s \in SessionIds :
        (pc[Pipe(s)] = "done" /\ exc[s] = "Failed to clone repository"
            /\ cancels[s] = 0) =>
            /\ db[s].status = "failed"
            /\ db[s].error_message = "Failed to clone repository"
            /\ destroyCalls[Pipe(s)] >= 1

\* A cancel request for s was served to its end: cancel_session and its
\* finalize ran and get_db committed them.
CancelAccepted(s) == cancels[s] > 0 /\ pc[Cancel(s)] = "idle"

\* The pipeline of s provisions a container, invokes the agent runner or
\* commits and pushes in this step.
StageRuns(s) ==
    /\ pc[Pipe(s)] \in {"provision", "agent_run", "push"}
    /\ pc'[Pipe(s)] \notin {pc[Pipe(s)], "handler_broken"}

\* C11: once a cancel request for a session has been accepted, the pipeline
\* of that session provisions no container, invokes no agent run and makes
\* no commit/push.
C11_NoStageAfterCancel ==
    [][\A s \in SessionIds : CancelAccepted(s) => ~StageRuns(s)]_vars

\* The events of s in order of creation: committed ones, then those of the
\* pipeline's open transaction.
CreatedEvents(s) == dbEvents[s] \o txEvents[s]

\* C12: the sequence numbers of a session's events are strictly increasing in
\* order of creation (hence pairwise distinct), the first is 0, and
\* get_session_events returns the committed events in that order.
C12_EventSequences ==
    \A s \in SessionIds :
        LET e == CreatedEvents(s) IN
        /\ Exists(s) => (Len(e) > 0 /\ e[1] = 0)
        /\ \A i, j \in 1..Len(e) : i < j => e[i] < e[j]
        /\ GetSessionEvents(s) = dbEvents[s]

\* The pipeline of a session ended after create_session, start_session,
\* run_agent, the streaming callback and the push each persisted events.
C12_Witness ==
    \E s \in SessionIds :
        /\ pc[Pipe(s)] = "done"
        /\ git_result[s] = "committed"
        /\ Len(dbEvents[s]) >= 9

\* C13: when the feed reports the session as ended, the observer (whose
\* cursor is the feed's starting last_sequence, 0) has received exactly the
\* persisted events with a greater sequence, each once and in increasing
\* order.
C13_FeedDeliversAll ==
    \A s \in SessionIds :
        wsPc[s] = "ended" => wsSent[s] = EventsAfter(s, 0)

\* The pipelines of both sessions are over and each billed a positive
\* duration.
BothBilled ==
    \A s \in SessionIds :
        /\ pc[Pipe(s)] = "done"
        /\ Billable(obj[Pipe(s)])
        /\ Len(billing[s]) = 1

\* C14: after the finalizations of two sessions of the same user, the usage
\* counter has grown by the sum of both sessions' durations.
C14_NoLostUpdate ==
    BothBilled =>
        sub - sub0 = obj[Pipe("s1")].duration_seconds
                     + obj[Pipe("s2")].duration_seconds

\* C15: the admission check denies exactly when a finite monthly allowance
\* is used up (usage >= allowance) or a finite concurrency allowance is
\* reached (active sessions >= allowance), with the quota reason taking
\* precedence; -1 never denies; a user without subscription is checked
\* against the free tier; usage 60 of 60 is denied, usage 59.9 is allowed.
C15_AdmissionCheck ==
    checked =>
        LET tier == IF subRow.present THEN subRow.tier ELSE "free"
            used == IF subRow.present THEN subRow.minutes_used ELSE 0
            minutes == TIER_LIMITS[tier].minutes_per_month
            slots == TIER_LIMITS[tier].max_concurrent_sessions
            quota == minutes # Unlimited /\ used >= minutes * 60
            full == slots # Unlimited /\ nActive >= slots
        IN /\ checkResult.allowed <=> ~(quota \/ full)
           /\ quota => checkResult.reason = QuotaReason(tier)
           /\ (full /\ ~quota) => checkResult.reason = ConcurrencyReason(tier)
           /\ (tier = "free" /\ used = 60 * 60) =>
                  checkResult = [allowed |-> FALSE, reason |-> QuotaReason("free")]
           /\ (tier = "free" /\ used = 60 * 60 - 6 /\ nActive = 0) =>
                  checkResult.allowed

\* A free-tier subscription with exactly 60 minutes used was checked and
\* denied with the quota reason.
C15_Witness ==
    /\ checked
    /\ subRow = [present |-> TRUE, tier |-> "free", minutes_used |-> 3600]
    /\ ~checkResult.allowed
    /\ checkResult.reason = QuotaReason("free")

\* C16: right after a successful create_session (the pipeline is scheduled
\* and has not run, no cancel was requested) the session is pending with
\* exactly one event, of sequence 0, no container_id and no started_at, and
\* no container exists for it.
C16_CreatedPending ==
    \A s \in SessionIds :
        (pc[Pipe(s)] = "load" /\ cancels[s] = 0) =>
            /\ Exists(s)
            /\ db[s].status = "pending"
            /\ dbEvents[s] = << 0 >> /\ txEvents[s] = << >>
            /\ db[s].container_id = "None"
            /\ db[s].started_at = None
            /\ container[s] = "none"

\* A creation request succeeded and its pipeline has not started yet.
C16_Witness ==
    \E s \in SessionIds :
        req[s] = "created" /\ pc[Pipe(s)] = "load" /\ cancels[s] = 0

\* create_session raised for the request of s.
Rejected(s) == req[s] \notin {"none", "received", "admitted", "created"}

\* C17: a rejected creation request leaves nothing behind: no session row,
\* no event, no container and no scheduled pipeline.
C17_RejectionCommitsNothing ==
    \A s \in SessionIds :
        Rejected(s) =>
            /\ ~Exists(s)
            /\ db[s] = NewSession /\ tx[s] = NewSession
            /\ dbEvents[s] = << >> /\ txEvents[s] = << >>
            /\ container[s] = "none"
            /\ pc[Pipe(s)] = "none"

\* One request was denied by the admission check for concurrency while the
\* other session of the user is active.
C17_Witness ==
    \E s \in SessionIds :
        /\ req[s] = ConcurrencyReason(UserTier)
        /\ \E u \in SessionIds \ {s} : u \in ActiveSessions

\* The exec mechanism ran the command to its end and reported its exit code.
ExecRan == execPc = "done" /\ execFault = "none"

\* C18: every result the runner returns has success true exactly when its
\* exit code is 0; for a command that exits with code 3 the stream ends with
\* the exit-code sentinel of 3 and carries no error sentinel, and the runner
\* returns success = false and exit_code = 3.
C18_ExitCodeReported ==
    /\ returned => (streamResult.success <=> streamResult.exit_code = 0)
    /\ (genPc = "ended" /\ ExecRan /\ ExitCode = 3) =>
           /\ yielded[Len(yielded)] = ExitSentinel(3)
           /\ \A i \in 1..Len(yielded) : yielded[i] # ErrorSentinel
    /\ (returned /\ ExecRan /\ ExitCode = 3) =>
           streamResult = [success |-> FALSE, exit_code |-> 3]

\* exec_create or exec_start raised: the exec call itself failed.
ExecCallFailed == execFault = "create"

\* C19: when the exec call itself fails, the stream carries the
\* execution-error sentinel and nothing else, and the runner returns
\* success = false and exit_code = -1 having parsed no line and forwarded no
\* event other than the error.
C19_ExecErrorShortCircuit ==
    ExecCallFailed =>
        /\ yielded \o queue \in {<< ErrorSentinel >>, << ErrorSentinel, QueueEnd >>}
        /\ returned =>
              /\ yielded = << ErrorSentinel >>
              /\ streamResult = [success |-> FALSE, exit_code |-> -1]
              /\ parsed = 0
              /\ forwarded = << "error" >>

C19_Witness == ExecCallFailed /\ returned

\* The lines of a text, by the positions of its line feeds: a line starts at
\* position 1 and after every line feed and runs up to the next line feed.
\* With unterminated = TRUE a non-empty piece after the last line feed is a
\* line as well.
Breaks(text) == {i \in 1..Len(text) : text[i] = NL}

LineFrom(text, a) ==
    LET after == {i \in Breaks(text) : i >= a}
        e == IF after = {} THEN Len(text) + 1
             ELSE CHOOSE i \in after : \A j \in after : i <= j
    IN SubSeq(text, a, e - 1)

LineStarts(text, unterminated) ==
    {a \in {1} \cup {i + 1 : i \in Breaks(text)} :
        \/ \E i \in Breaks(text) : i >= a
        \/ unterminated /\ a <= Len(text)}

OutputLines(text, unterminated) ==
    LET S == LineStarts(text, unterminated)
        nth(k) == CHOOSE a \in S : Cardinality({b \in S : b < a}) = k - 1
    IN [k \in 1..Cardinality(S) |-> LineFrom(text, nth(k))]

\* What exec_streaming is to yield for what the exec did: the lines of the
\* output it received (when the stream broke, the lines received whole) and
\* one sentinel.
ExpectedStream ==
    CASE execFault = "create" -> << ErrorSentinel >>
      [] execFault = "stream" ->
            Append(OutputLines(received, FALSE), ErrorSentinel)
      [] execFault = "inspect" ->
            Append(OutputLines(received, TRUE), ErrorSentinel)
      [] OTHER -> Append(OutputLines(received, TRUE), ExitSentinel(ExitCode))

\* C20: exec_streaming yields every output line of the command in order,
\* the final unterminated line included, then exactly one sentinel as the
\* last item (the exit-code sentinel if the exec ran, the error sentinel
\* otherwise), then ends; once the producer has finished the queue holds
\* the closing None, so the consumer does not wait forever.
C20_StreamContract ==
    /\ execPc = "done" =>
          yielded \o queue =
              ExpectedStream \o (IF genPc = "ended" THEN << >> ELSE << QueueEnd >>)
    /\ (execPc = "done" /\ genPc = "waiting") =>
          queue # << >> /\ queue[Len(queue)] = QueueEnd
    /\ genPc = "ended" => (execPc = "done" /\ yielded = ExpectedStream)

\* A command wrote a line, a line feed and an unterminated line, and the
\* consumer drained the stream.
C20_Witness ==
    /\ genPc = "ended" /\ execFault = "none"
    /\ buffer # << >>
    /\ Len(yielded) = 3

\* Observers the broadcast's send_json raised for.
Failing == {dead[k] : k \in 1..Len(dead)}

\* C21: a finished broadcast has delivered the message to every observer
\* attached during the whole broadcast whose send did not fail, and only
\* failing observers were removed, also when other observers attach or
\* detach while the broadcast is suspended in a send.
C21_BroadcastDelivers ==
    bPc \in {"done", "raised"} =>
        \A w \in throughout :
            /\ w \in delivered \cup Failing
            /\ w \notin Failing => In(active_connections, w)

\* Process p called destroy_container in its finalize_session and the
\* container is still there: the destruction failed.
DestroyFailed(p) ==
    destroyCalls[p] >= 1 /\ container[p[2]] \in {"running", "exited"}

\* finalize_session of process p has returned.
Finalized(p) == pc[p] \in {"commit3", "commit"}

\* C22: a failed container destruction inside finalize_session is not
\* propagated and does not prevent billing: the call returns with ended_at
\* set and, for a positive duration, with the billing record added and the
\* usage counter incremented by the duration.
C22_BillingDespiteDestroyFailure ==
    \A p \in Procs :
        (Finalized(p) /\ DestroyFailed(p)) =>
            /\ obj[p].ended_at # None
            /\ Billable(obj[p]) =>
                  /\ txBilling[p] # << >>
                  /\ txBilling[p][Len(txBilling[p])] =
                         CostCents(obj[p].duration_seconds)
                  /\ obj[p].cost_cents = CostCents(obj[p].duration_seconds)
                  /\ subLock = p
                  /\ subTx = subRead[p] + obj[p].duration_seconds

C22_Witness ==
    \E p \in Procs :
        Finalized(p) /\ DestroyFailed(p) /\ Billable(obj[p])

\* The last-resort handler of the pipeline of s takes its step.
HandlerRuns(s) == pc[Pipe(s)] = "handler" /\ pc'[Pipe(s)] # "handler"

\* C23: the pipeline's last-resort handler marks the session failed only if
\* it is not already terminal: a session that is completed or cancelled
\* when the handler runs keeps its status.
C23_HandlerKeepsTerminal ==
    [][\A s \in SessionIds :
          (HandlerRuns(s) /\ db[s].status \in TerminalStatuses) =>
              db'[s].status = db[s].status]_vars

\* C24: ended_at and duration_seconds are set together: in every reachable
\* state a session's ended_at is set if and only if its duration_seconds is.
C24_EndedWithDuration ==
    \A s \in SessionIds :
        db[s].ended_at # None <=> db[s].duration_seconds # None

\* C25: every container started for a session is eventually destroyed, by
\* the finalize step or else by the expiry sweep, given that the sweep runs
\* repeatedly; and a destroyed container is not destroyed a second time.
C25_ContainerEventuallyDestroyed ==
    /\ \A s \in Focus :
          (container[s] = "running") ~> (container[s] = "destroyed")
    /\ [][\A s \in Focus :
            container[s] = "destroyed" => container'[s] = "destroyed"]_vars

\* Every event of the sequence before is still there, in its place.
IsPrefix(before, after) ==
    Len(before) <= Len(after) /\ SubSeq(after, 1, Len(before)) = before

\* C26: in every reachable state a session whose status is failed has its
\* error_message set, and no persisted event of a session is ever removed,
\* so a failed session keeps the events persisted before the failure.
C26_FailedKeepsHistory ==
    /\ [](\A s \in SessionIds :
            db[s].status = "failed" => db[s].error_message # "None")
    /\ [][\A s \in SessionIds : IsPrefix(dbEvents[s], dbEvents'[s])]_vars

C26_Witness ==
    \E s \in SessionIds : db[s].status = "failed" /\ Len(dbEvents[s]) >= 3

\* The decoded line is the JSON object of an assistant message "hello".
IsAssistantHello == Unspaced(inputLine) = << LBrace, AssistantHello, RBrace >>

\* The decoded line is not empty and is not JSON.
IsNonJson ==
    Strip(inputLine) # << >> /\ JsonLoads(Strip(inputLine)) = JSONDecodeError

OneMessage(content) ==
    [raised |-> FALSE, events |-> << AgentMessage(content) >>]

NoEvent == [raised |-> FALSE, events |-> << >>]

\* C27 as stated: the assistant line yields exactly one agent-message event
\* with content hello, every non-empty line that is not JSON yields exactly
\* one agent-message event with the line's text, and an empty line yields
\* no event.
C27_DecoderAsStated ==
    decodeDone =>
        /\ IsAssistantHello => decoded = OneMessage(<< TextHello >>)
        /\ IsNonJson => decoded = OneMessage(Strip(inputLine))
        /\ Strip(inputLine) = << >> => decoded = NoEvent

\* C27: the assistant line yields exactly one agent-message event with
\* content hello; a non-empty line that is not JSON yields exactly one
\* agent-message event with the line's text if it does not begin with an
\* opening brace, and no event if it does; an empty line yields no event.
C27_DecoderRoundTrip ==
    decodeDone =>
        /\ IsAssistantHello => decoded = OneMessage(<< TextHello >>)
        /\ (IsNonJson /\ Strip(inputLine)[1] # LBrace) =>
              decoded = OneMessage(Strip(inputLine))
        /\ (IsNonJson /\ Strip(inputLine)[1] = LBrace) => decoded = NoEvent
        /\ Strip(inputLine) = << >> => decoded = NoEvent

C27_Witness ==
    /\ decodeDone
    /\ inputLine = << TextBuild >>
    /\ decoded = OneMessage(<< TextBuild >>)

\* C28: whatever the command writes, when the exec mechanism ran it the
\* runner reads the stream to its end and returns the command's real exit
\* code: no output line makes it return -1 or leave the stream early.
C28_OutputCannotAbort ==
    (returned /\ ExecRan) =>
        /\ genPc = "ended"
        /\ streamResult.exit_code = ExitCode
        /\ streamResult.exit_code # -1

\* The place of a status in the order pending, provisioning, running,
\* agent_working, pushing, terminal.
StatusRank(status) ==
    CASE status = "pending" -> 0
      [] status = "provisioning" -> 1
      [] status = "running" -> 2
      [] status = "agent_working" -> 3
      [] status = "pushing" -> 4
      [] OTHER -> 5

\* Everything the pipeline of s has written is committed.
AllCommitted(s) == txEvents[s] = << >> /\ rowLock[s] # "pipe"

\* run_agent begins after start_session has made the session running and
\* that is committed; finalize_session begins on a session that the
\* previous stage has ended, with that committed.
StagesInOrder(s) ==
    /\ pc[Pipe(s)] = "agent_start" =>
          obj[Pipe(s)].status = "running" /\ AllCommitted(s)
    /\ pc[Pipe(s)] = "finalize" =>
          obj[Pipe(s)].status \in TerminalStatuses /\ AllCommitted(s)

\* A change of the status the pipeline holds goes forward in the order, and
\* to completed only from pushing.
StatusForward(s) ==
    obj'[Pipe(s)].status # obj[Pipe(s)].status =>
        /\ StatusRank(obj'[Pipe(s)].status) > StatusRank(obj[Pipe(s)].status)
        /\ obj'[Pipe(s)].status = "completed" =>
              obj[Pipe(s)].status = "pushing"

\* C29: within one pipeline execution the stages run in the order
\* start_session, run_agent, finalize_session, each after the previous
\* stage's writes are committed; absent cancel requests the statuses are
\* taken in the order pending, provisioning, running, agent_working,
\* pushing (possibly cut short), completed is reached only from pushing,
\* and the execution ends with the session in one terminal status.
C29_StagesAndStatuses ==
    /\ [](\A s \in SessionIds : cancels[s] = 0 => StagesInOrder(s))
    /\ [][\A s \in SessionIds : cancels[s] = 0 => StatusForward(s)]_vars
    /\ [](\A s \in SessionIds :
            (cancels[s] = 0 /\ pc[Pipe(s)] = "done") =>
                obj[Pipe(s)].status \in TerminalStatuses)

\* The cancel request on s has run cancel_session's assignments and flush.
CancelApplied(s) ==
    pc[Cancel(s)] \in {"finalize", "finalize_bill", "finalize_flush", "commit"}

\* Its finalize_session has passed the container and the billing blocks.
CancelBilled(s) == pc[Cancel(s)] \in {"finalize_flush", "commit"}

\* What cancel_session and its finalize_session have left on the cancel
\* request's session object and in its transaction.
CancelState(s) ==
    LET c == Cancel(s)
        o == obj[c]
    IN /\ CancelApplied(s) =>
            /\ o.status = "cancelled"
            /\ o.ended_at # None
            /\ o.duration_seconds # None <=> o.started_at # None
            /\ o.started_at # None =>
                  o.duration_seconds =
                      (o.ended_at - o.started_at) * TickSeconds
       /\ CancelBilled(s) =>
            /\ finalizeCalls[c] = cancels[s]
            /\ txBilling[c] =
                  (IF Billable(o)
                   THEN << CostCents(o.duration_seconds) >> ELSE << >>)
            /\ o.started_at = None => txBilling[c] = << >>

\* The step in which the cancel request's finalize_session passes its
\* container block calls destroy exactly when a container is assigned.
CancelDestroys(s) ==
    LET c == Cancel(s) IN
    (pc[c] = "finalize" /\ pc'[c] # "finalize") =>
        /\ pc'[c] = "finalize_bill"
        /\ finalizeCalls'[c] = finalizeCalls[c] + 1
        /\ destroyCalls'[c] =
              destroyCalls[c] + (IF obj[c].container_id # "None" THEN 1 ELSE 0)

\* C30: cancel_session sets status cancelled and ended_at, sets
\* duration_seconds from started_at exactly when started_at is set, then
\* runs finalize_session, which destroys the container if one is assigned
\* and bills if the duration is positive; cancelling a session that never
\* started adds no billing record.
C30_CancelThenFinalize ==
    /\ [](\A s \in SessionIds : CancelState(s))
    /\ [][\A s \in SessionIds : CancelDestroys(s)]_vars

\* A running session with a container is cancelled after some time.
C30_Witness ==
    \E s \in SessionIds :
        /\ pc[Cancel(s)] = "commit"
        /\ db[s].status \notin TerminalStatuses
        /\ destroyCalls[Cancel(s)] = 1
        /\ txBilling[Cancel(s)] # << >>

\* The failure details git_commit_and_push raises with.
GitFailures ==
    {"No such container", "Git add failed", "Git commit failed", "Git push failed"}

\* The pipeline of s has left run_agent's push block with a failure.
PushFailed(s) == pc[Pipe(s)] = "commit2" /\ git_result[s] \in GitFailures

CeilCents(d) == (d + 59) \div 60
NearestCents(d) == (2 * d + 60) \div 120

\* C32: finalize_session on a session with a positive recorded duration sets
\* cost_cents to the exact cost rounded up or to the nearest cent, never
\* truncated downward, so an exact cost of at least half a cent is charged
\* at least 1 cent.
C32_CostRoundedNotTruncated ==
    \A p \in Procs :
        (pc[p] = "finalize_flush" /\ Billable(obj[p])) =>
            /\ obj[p].cost_cents \in {CeilCents(obj[p].duration_seconds),
                                      NearestCents(obj[p].duration_seconds)}
            /\ 2 * obj[p].duration_seconds >= 60 => obj[p].cost_cents >= 1
            /\ txBilling[p] = << obj[p].cost_cents >>

\* The statuses in which a session holds a container.
ContainerStatuses == {"provisioning", "running", "agent_working", "pushing"}

\* C33: in every reachable state a session record's container_id is
\* non-empty only while its status is provisioning, running, agent_working
\* or pushing (empty in pending and in every terminal status), and it is set
\* whenever the status is running, agent_working or pushing.
C33_ContainerIdOnlyWhileActive ==
    \A s \in SessionIds :
        /\ db[s].container_id # "None" => db[s].status \in ContainerStatuses
        /\ db[s].status \in {"running", "agent_working", "pushing"} =>
              db[s].container_id # "None"

\* The second half alone: an active status comes with a container_id.
ActiveHasContainerId ==
    \A s \in SessionIds :
        db[s].status \in {"running", "agent_working", "pushing"} =>
            db[s].container_id # "None"

\* The containers created for session s.
ContainersOf(s) == {id \in ContainerIds : dockerd[id].label = s}

\* C34: each container is bound to exactly one session, each session is
\* assigned at most one container over its whole life, and every exec,
\* commit/push and destroy issued by a session's pipeline or its cancel
\* targets that session's own container, with several sessions running
\* concurrently.
C34_ContainerOwnedByOneSession ==
    /\ [](/\ \A id \in Created : dockerd[id].label \in Owners
          /\ \A s \in Owners :
               /\ Cardinality(ContainersOf(s)) <= 1
               /\ ownObj[s] # "None" => ContainersOf(s) = {ownObj[s]}
               /\ ownRow[s] \in {"None", ownObj[s]}
          /\ \A c \in calls : dockerd[c[3]].label = c[1])
    /\ [][\A id \in Created : dockerd'[id].label = dockerd[id].label]_vars

\* Two sessions have each run a command and destroyed a container.
C34_Witness ==
    \E s, t \in Owners :
        /\ s # t
        /\ \A u \in {s, t} :
             \E c, d \in calls :
                 /\ c[1] = u /\ c[2] = "exec"
                 /\ d[1] = u /\ d[2] = "destroy"
        /\ \E c \in calls : c[1] = s /\ c[2] = "push"

\* The states a container can be in for the daemon.
ContainerStates == {"none", "running", "exited", "destroyed"}

\* What two destroy calls in a row can leave.
DestroyTwice(state) ==
    UNION {DestroyOutcomes(after) : after \in DestroyOutcomes(state)}

\* Session s passes the container block of a finalize_session.
DestroyStep(s) ==
    \/ ownPc[s] \in {"finalize", "handler"} /\ ownPc'[s] = "done"
    \/ ownCancel[s] = "loaded" /\ ownCancel'[s] = "done"

\* C35: destroy_container never raises and is idempotent: on a container
\* that does not exist (never created, or already destroyed by finalize or
\* cancel) it is a no-op that changes nothing, and destroying twice can leave
\* exactly what destroying once can.
C35_DestroyIdempotent ==
    /\ [](\A state \in ContainerStates :
            /\ DestroyOutcomes(state) # {}
            /\ state \in {"none", "destroyed"} =>
                  DestroyOutcomes(state) = {state}
            /\ DestroyTwice(state) = DestroyOutcomes(state)
            /\ "destroyed" \in DestroyOutcomes(state) <=> state # "none")
    /\ [][\A s \in Owners :
            /\ ENABLED OwnFinalize(s) <=> ownPc[s] \in {"finalize", "handler"}
            /\ DestroyStep(s) =>
                 \A id \in ContainerIds :
                     dockerd[id].state \in {"none", "destroyed"} =>
                         dockerd'[id] = dockerd[id]]_vars

\* A destroy call has found its container already destroyed.
C35_Witness ==
    \E c \in calls :
        /\ c[2] = "destroy"
        /\ c[4] = "destroyed"
        /\ dockerd[c[3]].state = "destroyed"

\* The session-labelled containers that were older than the maximum
\* lifetime when the cleanup was called.
Due == {id \in ContainerIds : /\ atCall[id].state \in {"running", "exited"}
                              /\ atCall[id].label # "None"
                              /\ TooOld(atCall[id].hours)}

\* The containers the call destroyed.
DestroyedByCall ==
    {id \in ContainerIds : daemon[id].state = "destroyed"
                           /\ atCall[id].state # "destroyed"}

\* C36: cleanup_expired_containers destroys exactly the session-labelled
\* containers whose age exceeds CONTAINER_MAX_LIFETIME_HOURS, leaves every
\* other container untouched and returns the number it destroyed; an error
\* while handling one container does not keep the others from being handled.
C36_CleanupExact ==
    cleanPc = "returned" =>
        /\ DestroyedByCall = Due \ errors
        /\ \A id \in ContainerIds \ Due : daemon[id] = atCall[id]
        /\ cleaned = Cardinality(DestroyedByCall)

\* The same for the running containers only.
CleanupExactForRunning ==
    cleanPc = "returned" =>
        /\ DestroyedByCall =
              {id \in Due : atCall[id].state = "running"} \ errors
        /\ \A id \in ContainerIds \ Due : daemon[id] = atCall[id]
        /\ cleaned = Cardinality(DestroyedByCall)

\* The streaming commands run so far, and the exec commands before them.
Streams == SelectSeq(ran, LAMBDA c : c[1] = "stream")
Execs == SelectSeq(ran, LAMBDA c : c[1] = "exec")

\* The run_task call is over: it returned a result or raised.
TaskOver == taskPc \in {"returned", "raised"}

\* The order of the commands of a cdm-mode call that returned: the check;
\* the install if the check failed; the quick-mode command if the install
\* failed, otherwise the init and the pipeline command.
CdmOrder ==
    \/ /\ Len(Execs) = 2
       /\ Execs[1] = << "exec", "which cdm", TRUE >>
       /\ Execs[2][2] = "cdm init"
       /\ cmd = "cdm"
    \/ /\ Len(Execs) = 3
       /\ Execs[1] = << "exec", "which cdm", FALSE >>
       /\ Execs[2] = << "exec", "install", TRUE >>
       /\ Execs[3][2] = "cdm init"
       /\ cmd = "cdm"
    \/ /\ Execs = << << "exec", "which cdm", FALSE >>,
                     << "exec", "install", FALSE >> >>
       /\ cmd = "claude"

\* One streaming command ran, last, and its result is what was returned,
\* with the shape and the success rule of quick mode.
OneStream ==
    /\ Len(Streams) = 1
    /\ ran[Len(ran)] = << "stream", cmd, taskResult.success >>
    /\ taskResult \in StreamResults(TRUE)
    /\ taskResult.success <=> taskResult.exit_code = 0
    /\ execution_mode = "claude" => ran = Streams /\ cmd = "claude"
    /\ execution_mode = "cdm" => CdmOrder

PositiveDuration(o) == o.duration_seconds # None /\ o.duration_seconds > 0

\* No copy of session s has a positive duration recorded: the committed row,
\* the row its lock holder sees, and the objects of its two requests.
NeverTimed(s) ==
    /\ ~PositiveDuration(db[s]) /\ ~PositiveDuration(tx[s])
    /\ ~PositiveDuration(obj[Pipe(s)]) /\ ~PositiveDuration(obj[Cancel(s)])

\* C38: a session that never obtained a recorded positive duration (failed
\* during provisioning, cancelled while pending) is never charged: finalize
\* appends no billing record, leaves cost_cents at 0 and does not change the
\* subscription's usage counter, while still setting ended_at.
C38_NoDurationNoCharge ==
    /\ [](\A s \in Focus :
            /\ NeverTimed(s) =>
                 /\ billing[s] = << >>
                 /\ txBilling[Pipe(s)] = << >> /\ txBilling[Cancel(s)] = << >>
                 /\ db[s].cost_cents = 0 /\ tx[s].cost_cents = 0
                 /\ obj[Pipe(s)].cost_cents = 0 /\ obj[Cancel(s)].cost_cents = 0
                 /\ sub = sub0 /\ subTx = sub0
            /\ \A p \in {Pipe(s), Cancel(s)} :
                 Finalized(p) => obj[p].ended_at # None)
    /\ [][\A s \in Focus : \A p \in {Pipe(s), Cancel(s)} :
            (pc[p] \in {"finalize_bill", "finalize_flush"}
             /\ pc'[p] # pc[p] /\ ~PositiveDuration(obj[p])) =>
                /\ txBilling' = txBilling /\ billing' = billing
                /\ sub' = sub /\ subTx' = subTx
                /\ obj'[p].cost_cents = obj[p].cost_cents]_vars

\* A session that failed during provisioning has been finalized: ended,
\* without a duration and without a charge.
C38_Witness ==
    \E s \in Focus :
        /\ pc[Pipe(s)] = "done"
        /\ finalizeCalls[Pipe(s)] >= 1
        /\ db[s].status = "failed"
        /\ db[s].started_at # None
        /\ db[s].ended_at # None
        /\ NeverTimed(s)
        /\ billing[s] = << >>

\* The sequence numbers the observer of s was sent, and those persisted.
SentTo(s) == {wsSent[s][i] : i \in 1..Len(wsSent[s])}
Persisted(s) == {dbEvents[s][i] : i \in 1..Len(dbEvents[s])}

\* C39: an observer that attaches to a session's live feed without a cursor
\* receives every persisted event of the session, including the creation
\* event with sequence 0: the creation event from the first poll on, and all
\* of them by the time the feed reports the end.
C39_ObserverGetsCreationEvent ==
    \A s \in SessionIds :
        /\ wsPc[s] \in {"status", "ended"} => 0 \in SentTo(s)
        /\ wsPc[s] = "ended" => Persisted(s) \subseteq SentTo(s)

\* How many times observer w is on the registry's list.
Occurrences(w) ==
    Cardinality({k \in 1..Len(active_connections) : active_connections[k] = w})

\* C40: detaching is always safe: disconnect completes without error also
\* for an observer that broadcast has removed after a failed delivery, and
\* while no broadcast is running the registry holds every observer at most
\* once, only attached observers, every attached observer that no broadcast
\* removed, and no entry for a session without observers.
C40_DetachAlwaysSafe ==
    /\ \A w \in Observers : conn[w] # "raised"
    /\ bPc \in {"idle", "done", "raised"} =>
          /\ \A w \in Observers :
               /\ Occurrences(w) <= 1
               /\ Occurrences(w) = 1 => conn[w] = "attached"
               /\ (conn[w] = "attached" /\ w \notin Failing) =>
                     Occurrences(w) = 1
          /\ hasKey => active_connections # << >>

\* The registry alone, whatever disconnect and broadcast raise.
RegistryHoldsNoStranger ==
    \A w \in Observers :
        /\ Occurrences(w) <= 1
        /\ Occurrences(w) = 1 => conn[w] = "attached"

\* Disconnect never raises.
DisconnectNeverRaises == \A w \in Observers : conn[w] # "raised"

\* No key with an empty list.
NoEmptyEntry == hasKey => active_connections # << >>

====
